---- MODULE Spec2Model ----
(***************************************************************************)
(* State-machine model of the memHierarchy DirectoryController             *)
(* (directoryController.cc): directory entries, MSHR, responses tracker,   *)
(* event/retry buffers, outgoing queues, entry cache and the clock pump.   *)
(* The caches, the non-caching device and the memory are the environment.  *)
(* The node harness (PandosNode.cc) is a component of its own: its cores,  *)
(* their task deques and the memory requests it has in flight.             *)
(***************************************************************************)
EXTENDS Integers, Sequences, FiniteSets, Bags, TLC

VARIABLES
    directory,        \* directory: Addr -> DirEntry (present = FALSE: not in the map)
    entryCache,       \* entryCache: LRU list of cached entries, front = most recent
    mshr,             \* mshr: per-address queue, acksNeeded, data buffer
    responses,        \* responses: addr -> (dst -> event id)
    eventBuffer,      \* eventBuffer
    retryBuffer,      \* retryBuffer
    cpuMsgQueue,      \* cpuMsgQueue: time-ordered multimap
    memMsgQueue,      \* memMsgQueue: time-ordered multimap
    addrsThisCycle,   \* addrsThisCycle
    timestamp,        \* timestamp
    clockOn,          \* clockOn
    noncacheMemReqs,  \* noncacheMemReqs: event id -> original source
    dirMemAccesses,   \* dirMemAccesses: event id -> line address
    nextId,           \* event id generator
    fatal,            \* "" or the fatal error the controller stopped with
    processed,        \* lines of the events consumed by the latest clock call, in order
    cfg,              \* construction parameters and init() results
    cycle,            \* the simulator's current cycle
    net,              \* messages handed to the links and not yet answered
    cache,            \* the caches' own line states
    script,           \* the requests the endpoints are still to issue
    nacks,            \* how many more NACKs the endpoints may answer with
    budget,           \* how many more requests the endpoints may issue on their own
    delivered,        \* bag of the final responses handed to the links
    node              \* the PandosNode harness: cores, requests in flight

ctl == <<directory, entryCache, mshr, responses, eventBuffer, retryBuffer,
         cpuMsgQueue, memMsgQueue, addrsThisCycle, timestamp, clockOn,
         noncacheMemReqs, dirMemAccesses, nextId, fatal, processed>>
env == <<cfg, cycle, net, cache, script, nacks, budget, delivered>>
vars == <<ctl, env, node>>

(***************************************************************************)
(* Names, addresses, commands.                                             *)
(***************************************************************************)
Dir == "dir"
Mem == "mem"
Caches == {"A", "B"}
Devices == {"D"}
CpuSide == Caches \cup Devices
Addrs == {0, 1, 2}
DirEntryAddr == 0

RequestCmds == {"GetS", "GetX", "GetSX", "Write", "PutS", "PutM", "PutE", "PutX",
                "FlushLine", "FlushLineInv", "FetchInv", "FetchInvX", "ForceInv", "Inv"}
ResponseCmds == {"GetSResp", "GetXResp", "WriteResp", "FlushLineResp", "AckInv",
                 "AckPut", "FetchResp", "FetchXResp", "NACK"}

\* MemEvent::makeResponse(): the canonical response command of a request
ResponseOf(cmd) ==
    CASE cmd = "GetS" -> "GetSResp"
      [] cmd \in {"GetX", "GetSX"} -> "GetXResp"
      [] cmd = "Write" -> "WriteResp"
      [] cmd \in {"FlushLine", "FlushLineInv"} -> "FlushLineResp"
      [] cmd \in {"PutS", "PutM", "PutE", "PutX"} -> "AckPut"
      [] cmd = "FetchInv" -> "FetchResp"
      [] cmd = "FetchInvX" -> "FetchXResp"
      [] cmd \in {"Inv", "ForceInv"} -> "AckInv"
      [] OTHER -> "NULLCMD"

\* A MemEvent. nacked is <<>> or <<the event a NACK carries>>.
NewEvent(id, cmd, addr, src, dst) ==
    [id |-> id, cmd |-> cmd, addr |-> addr, src |-> src, dst |-> dst,
     evict |-> FALSE, dirty |-> FALSE, payload |-> "none", global |-> TRUE,
     size |-> "event", nc |-> FALSE, noresp |-> FALSE, respTo |-> 0, nacked |-> <<>>]

\* MemEvent::makeResponse(cmd): a copy with source and destination swapped and
\* responseToID set
makeResponse(ev, cmd) ==
    [NewEvent(ev.id, cmd, ev.addr, ev.dst, ev.src) EXCEPT !.respTo = ev.id,
                                                      !.global = ev.global,
                                                      !.nc = ev.nc]

\* MemEvent::makeNACKResponse(ev): carries the nacked event
makeNACKResponse(ev) ==
    [NewEvent(ev.id, "NACK", ev.addr, ev.dst, ev.src) EXCEPT !.respTo = ev.id,
                                                         !.nacked = <<ev>>]

(***************************************************************************)
(* DirEntry                                                                *)
(***************************************************************************)
NoEntry == [present |-> FALSE, state |-> "NP", owner |-> "", sharers |-> {},
            cached |-> FALSE]
NewDirEntry == [present |-> TRUE, state |-> "I", owner |-> "", sharers |-> {},
                cached |-> TRUE]

getDirEntry(s, addr) ==
    IF s.directory[addr].present THEN s
    ELSE [s EXCEPT !.directory[addr] = NewDirEntry]

setState(s, addr, st) == [s EXCEPT !.directory[addr].state = st]
setOwner(s, addr, o) == [s EXCEPT !.directory[addr].owner = o]
removeOwner(s, addr) == [s EXCEPT !.directory[addr].owner = ""]
addSharer(s, addr, n) == [s EXCEPT !.directory[addr].sharers = @ \cup {n}]
removeSharer(s, addr, n) == [s EXCEPT !.directory[addr].sharers = @ \ {n}]
setCached(s, addr, b) == [s EXCEPT !.directory[addr].cached = b]
hasOwner(s, addr) == s.directory[addr].owner # ""
hasSharers(s, addr) == s.directory[addr].sharers # {}
isSharer(s, addr, n) == n \in s.directory[addr].sharers
Fatal(s, why) == [s EXCEPT !.fatal = IF @ = "" THEN why ELSE @, !.ret = TRUE]
Ret(s, b) == [s EXCEPT !.ret = b]

\* a local variable of a handler: the value is computed once and named in the rest
With(value, rest(_)) == rest(value)

(***************************************************************************)
(* MSHR                                                                    *)
(***************************************************************************)
NoData == [has |-> FALSE, payload |-> "none", dirty |-> FALSE]
EmptyReg == [q |-> <<>>, acks |-> 0, data |-> NoData]
EventEntry(ev) == [type |-> "Event", ev |-> <<ev>>, inProgress |-> FALSE]
WritebackEntry == [type |-> "Writeback", ev |-> <<>>, inProgress |-> FALSE]

RECURSIVE SumLen(_, _)
SumLen(m, as) ==
    IF as = {} THEN 0
    ELSE LET a == CHOOSE x \in as : TRUE IN Len(m[a].q) + SumLen(m, as \ {a})
mshrSize(s) == SumLen(s.mshr, Addrs)

exists(s, addr) == s.mshr[addr].q # <<>>
getFrontType(s, addr) == s.mshr[addr].q[1].type
getFrontEvent(s, addr) == s.mshr[addr].q[1].ev[1]
hasFrontEvent(s, addr) == exists(s, addr) /\ getFrontType(s, addr) = "Event"
getInProgress(s, addr) == s.mshr[addr].q[1].inProgress
setInProgress(s, addr) ==
    IF exists(s, addr) THEN [s EXCEPT !.mshr[addr].q[1].inProgress = TRUE] ELSE s
getAcksNeeded(s, addr) == s.mshr[addr].acks
incrementAcksNeeded(s, addr) == [s EXCEPT !.mshr[addr].acks = @ + 1]
decrementAcksNeeded(s, addr) ==
    [s EXCEPT !.mshr[addr].acks = IF @ > 0 THEN @ - 1 ELSE 0]
hasData(s, addr) == s.mshr[addr].data.has
getData(s, addr) == s.mshr[addr].data.payload
getDataDirty(s, addr) == s.mshr[addr].data.dirty
setData(s, addr, payload, dirty) ==
    [s EXCEPT !.mshr[addr].data = [has |-> TRUE, payload |-> payload, dirty |-> dirty]]
setDataDirty(s, addr, dirty) == [s EXCEPT !.mshr[addr].data.dirty = dirty]
clearData(s, addr) == [s EXCEPT !.mshr[addr].data = NoData]
pendingWriteback(s, addr) ==
    \E i \in 1..Len(s.mshr[addr].q) : s.mshr[addr].q[i].type = "Writeback"

InsertAt(q, idx, e) == SubSeq(q, 1, idx) \o <<e>> \o SubSeq(q, idx + 1, Len(q))
RemoveAt(q, i) == SubSeq(q, 1, i - 1) \o SubSeq(q, i + 1, Len(q))

\* insertEvent that ignores the position asked for and appends
insertPos_appends(s, addr, pos, fwd) ==
    IF ~fwd /\ cfg.mshrMax >= 0 /\ mshrSize(s) >= cfg.mshrMax THEN -1
    ELSE Len(s.mshr[addr].q)

\* insertEvent(addr, ev, pos, fwd): the index the event ends at, or -1 when full
insertPos(s, addr, pos, fwd) ==
    IF ~fwd /\ cfg.mshrMax >= 0 /\ mshrSize(s) >= cfg.mshrMax THEN -1
    ELSE IF pos < 0 \/ pos > Len(s.mshr[addr].q) THEN Len(s.mshr[addr].q)
    ELSE pos
insertEvent(s, addr, ev, pos, fwd) ==
    LET idx == insertPos(s, addr, pos, fwd) IN
    IF idx = -1 THEN s
    ELSE [s EXCEPT !.mshr[addr].q = InsertAt(@, idx, EventEntry(ev))]
insertWriteback(s, addr) ==
    [s EXCEPT !.mshr[addr].q = Append(@, WritebackEntry)]
removeFront(s, addr) ==
    IF exists(s, addr) THEN [s EXCEPT !.mshr[addr].q = Tail(@)] ELSE s
removeEntry(s, addr, i) ==
    IF Len(s.mshr[addr].q) > i THEN [s EXCEPT !.mshr[addr].q = RemoveAt(@, i + 1)] ELSE s

(***************************************************************************)
(* Responses tracker: addr -> (dst -> id), a set of <<dst, id>> per address *)
(***************************************************************************)
NoResp == [present |-> FALSE, m |-> {}]
respHas(s, addr, dst) == \E p \in s.responses[addr].m : p[1] = dst
respId(s, addr, dst) == (CHOOSE p \in s.responses[addr].m : p[1] = dst)[2]
\* std::map::insert: an existing key keeps its value
respInsert(s, addr, dst, id) ==
    IF respHas(s, addr, dst)
    THEN [s EXCEPT !.responses[addr].present = TRUE]
    ELSE [s EXCEPT !.responses[addr] = [present |-> TRUE, m |-> @.m \cup {<<dst, id>>}]]
\* responses.find(addr)->second.erase(dst); if empty, responses.erase(addr)
respErase(s, addr, dst) ==
    IF ~s.responses[addr].present THEN Fatal(s, "ub: responses.find(addr) == end()")
    ELSE LET m2 == {p \in s.responses[addr].m : p[1] # dst} IN
         [s EXCEPT !.responses[addr] = IF m2 = {} THEN NoResp
                                       ELSE [present |-> TRUE, m |-> m2]]

(***************************************************************************)
(* Outgoing queues                                                         *)
(***************************************************************************)
Msg(t, ev, dirAccess) == [time |-> t, ev |-> ev, dirAccess |-> dirAccess]
\* multimap::insert: after the last element whose key is <= t
UpperBound(q, t) == Cardinality({i \in 1..Len(q) : q[i].time <= t})
\* an insert in front of the messages scheduled for the same cycle
QInsert_lowerBound(q, m) ==
    InsertAt(q, Cardinality({i \in 1..Len(q) : q[i].time < m.time}), m)

QInsert(q, m) == InsertAt(q, UpperBound(q, m.time), m)

cpuReachable(dst) == dst \in CpuSide
memReachable(dst) == dst = Mem

forwardByAddress(s, ev, ts) ==
    [s EXCEPT !.memMsgQueue = QInsert(@, Msg(ts, [ev EXCEPT !.dst = Mem], FALSE))]

forwardByDestination(s, ev, ts) ==
    IF cpuReachable(ev.dst) THEN [s EXCEPT !.cpuMsgQueue = QInsert(@, Msg(ts, ev, FALSE))]
    ELSE IF memReachable(ev.dst)
    THEN [s EXCEPT !.memMsgQueue = QInsert(@, Msg(ts, ev, FALSE))]
    ELSE Fatal(s, "destination unreachable")

(***************************************************************************)
(* Send events                                                             *)
(***************************************************************************)
NodeOrder == <<"A", "B", "D", "dir", "mem">>

issueMemoryRequest(s, event, addr, lineGranularity) ==
    LET reqEvent == [event EXCEPT !.src = Dir,
                                  !.size = IF lineGranularity THEN "line" ELSE @]
    IN setInProgress(forwardByAddress(s, reqEvent, s.timestamp + cfg.accessLatency), addr)

issueFlush(s, event) ==
    LET addr == event.addr
        wb == hasData(s, addr) /\ getDataDirty(s, addr)
        flush == IF wb
                 THEN [event EXCEPT !.src = Dir, !.evict = TRUE,
                                    !.payload = getData(s, addr), !.dirty = TRUE]
                 ELSE [event EXCEPT !.src = Dir, !.payload = "none"]
        s1 == IF wb THEN clearData(s, addr) ELSE s
    IN forwardByAddress(setInProgress(s1, addr), flush, s.timestamp + cfg.accessLatency)

issueFetch(s, event, addr, cmd) ==
    LET owner == s.directory[addr].owner
        fetch == [NewEvent(s.nextId, cmd, addr, Dir, owner) EXCEPT !.size = "line"]
        s1 == [s EXCEPT !.nextId = @ + 1]
        s2 == respInsert(s1, addr, owner, fetch.id)
        s3 == incrementAcksNeeded(s2, addr)
    IN forwardByDestination(s3, fetch, s.timestamp + cfg.accessLatency)

issueInvalidation(s, dst, event, addr, cmd) ==
    LET inv == [NewEvent(s.nextId, cmd, addr, Dir, dst) EXCEPT !.size = "line"]
        s1 == [s EXCEPT !.nextId = @ + 1]
        s2 == incrementAcksNeeded(s1, addr)
        s3 == respInsert(s2, addr, s.directory[addr].owner, inv.id)
    IN forwardByDestination(s3, inv, s.timestamp + cfg.accessLatency)

RECURSIVE issueInvalidationsFrom(_, _, _, _, _)
issueInvalidationsFrom(s, i, event, addr, cmd) ==
    IF i > Len(NodeOrder) THEN s
    ELSE LET n == NodeOrder[i] IN
         IF n \in s.directory[addr].sharers /\ n # event.src
         THEN issueInvalidationsFrom(issueInvalidation(s, n, event, addr, cmd),
                                     i + 1, event, addr, cmd)
         ELSE issueInvalidationsFrom(s, i + 1, event, addr, cmd)
\* issueInvalidations without the test that skips the requester
issueInvalidations_toRequester(s, event, addr, cmd) ==
    issueInvalidationsFrom(s, 1, [event EXCEPT !.src = ""], addr, cmd)

issueInvalidations(s, event, addr, cmd) == issueInvalidationsFrom(s, 1, event, addr, cmd)

sendDataResponse(s, event, data, cmd) ==
    LET respEv == [makeResponse(event, cmd) EXCEPT !.size = "line", !.payload = data]
    IN forwardByDestination(s, respEv, s.timestamp + cfg.mshrLatency)

sendResponse(s, event) ==
    LET respEv == [makeResponse(event, ResponseOf(event.cmd)) EXCEPT !.size = "line"]
    IN forwardByDestination(s, respEv, s.timestamp + cfg.mshrLatency)

\* writebackData without wb->setPayload / wb->setDirty
writebackData_dropsPayload(s, event) ==
    LET wb == [NewEvent(s.nextId, "PutM", event.addr, Dir, Mem) EXCEPT !.size = "line"]
        s1 == [s EXCEPT !.nextId = @ + 1]
        s2 == IF cfg.waitWBAck THEN insertWriteback(s1, event.addr) ELSE s1
    IN forwardByAddress(s2, wb, s.timestamp + cfg.accessLatency)

writebackData(s, event) ==
    LET wb == [NewEvent(s.nextId, "PutM", event.addr, Dir, Mem) EXCEPT
                   !.size = "line", !.payload = event.payload, !.dirty = event.dirty]
        s1 == [s EXCEPT !.nextId = @ + 1]
        s2 == IF cfg.waitWBAck THEN insertWriteback(s1, event.addr) ELSE s1
    IN forwardByAddress(s2, wb, s.timestamp + cfg.accessLatency)

writebackDataFromMSHR(s, addr) ==
    LET wb == [NewEvent(s.nextId, "PutM", addr, Dir, Mem) EXCEPT
                   !.size = "line", !.payload = getData(s, addr), !.dirty = getDataDirty(s, addr)]
        s1 == setDataDirty([s EXCEPT !.nextId = @ + 1], addr, FALSE)
        s2 == IF cfg.waitWBAck THEN insertWriteback(s1, addr) ELSE s1
    IN forwardByAddress(s2, wb, s.timestamp + cfg.mshrLatency)

sendFetchResponse(s, event) ==
    LET addr == event.addr
        ack == [makeResponse(event, ResponseOf(event.cmd)) EXCEPT
                    !.payload = getData(s, addr), !.dirty = getDataDirty(s, addr)]
    IN forwardByDestination(clearData(s, addr), ack, s.timestamp + cfg.accessLatency)

sendAckInv(s, event) ==
    LET addr == event.addr
        s1 == IF hasData(s, addr) THEN clearData(s, addr) ELSE s
    IN forwardByDestination(s1, makeResponse(event, "AckInv"), s.timestamp + cfg.accessLatency)

sendAckPut(s, event) ==
    forwardByDestination(s, makeResponse(event, "AckPut"), s.timestamp + cfg.accessLatency)

sendNACK(s, event) ==
    forwardByDestination(s, makeNACKResponse(event), s.timestamp + cfg.accessLatency)

sendEntryToMemory(s) ==
    LET me == [NewEvent(s.nextId, "PutE", DirEntryAddr, Dir, Mem) EXCEPT
                   !.size = "entry", !.noresp = TRUE]
    IN [s EXCEPT !.nextId = @ + 1,
                 !.memMsgQueue = QInsert(@, Msg(s.timestamp + cfg.accessLatency, me, TRUE))]

(***************************************************************************)
(* Manage data structures                                                  *)
(***************************************************************************)
\* allocateMSHR that parks the event even when it reports Reject
allocateMSHR_parksOnReject(s, event, fwdReq, pos) ==
    LET end_pos == insertPos(s, event.addr, pos, fwdReq) IN
    [s |-> insertEvent(s, event.addr, event, pos, TRUE),
     status |-> IF end_pos = -1 THEN "Reject"
                ELSE IF end_pos # 0 THEN "Stall" ELSE "OK"]

allocateMSHR(s, event, fwdReq, pos) ==
    LET end_pos == insertPos(s, event.addr, pos, fwdReq) IN
    [s |-> insertEvent(s, event.addr, event, pos, fwdReq),
     status |-> IF end_pos = -1 THEN "Reject"
                ELSE IF end_pos # 0 THEN "Stall" ELSE "OK"]

\* status = inMSHR ? OK : allocateMSHR(event, fwd, pos)
Alloc(s, event, inMSHR, fwdReq, pos) ==
    IF inMSHR THEN [s |-> s, status |-> "OK"] ELSE allocateMSHR(s, event, fwdReq, pos)

pushRetryFront(s, addr) ==
    IF exists(s, addr) /\ getFrontType(s, addr) = "Event"
    THEN [s EXCEPT !.retryBuffer = Append(@, getFrontEvent(s, addr))]
    ELSE Fatal(s, "ub: getFrontEvent of an address with no front event")

retryIfReady(s, addr) ==
    IF exists(s, addr) /\ getFrontType(s, addr) = "Event"
       /\ ~getInProgress(s, addr) /\ getAcksNeeded(s, addr) = 0
    THEN [s EXCEPT !.retryBuffer = Append(@, getFrontEvent(s, addr))]
    ELSE s

\* cleanUpAfterRequest without the retry of the next event of the line
cleanUpAfterRequest_noRetry(s, event, inMSHR) ==
    LET addr == event.addr IN
    IF ~inMSHR THEN s
    ELSE IF ~exists(s, addr) THEN Fatal(s, "ub: getFrontType of an empty MSHR")
    ELSE IF getFrontType(s, addr) = "Event" THEN removeFront(s, addr)
    ELSE removeEntry(s, addr, 1)

cleanUpAfterRequest(s, event, inMSHR) ==
    LET addr == event.addr
        s1 == IF ~inMSHR THEN s
              ELSE IF ~exists(s, addr) THEN Fatal(s, "ub: getFrontType of an empty MSHR")
              ELSE IF getFrontType(s, addr) = "Event" THEN removeFront(s, addr)
              ELSE removeEntry(s, addr, 1)
    IN retryIfReady(s1, addr)

cleanUpAfterResponse(s, event) ==
    LET addr == event.addr
        s1 == IF ~exists(s, addr) THEN Fatal(s, "ub: getFrontType of an empty MSHR")
              ELSE removeFront(s, addr)
    IN retryIfReady(s1, addr)

\* the eviction loop without the mshr->exists(oldEntry) test
RECURSIVE evictEntries_ignoresMSHR(_)
evictEntries_ignoresMSHR(s) ==
    IF Len(s.entryCache) > cfg.entryCacheMaxSize
    THEN LET oldEntry == s.entryCache[Len(s.entryCache)] IN
         evictEntries_ignoresMSHR(sendEntryToMemory(
             setCached([s EXCEPT !.entryCache = SubSeq(@, 1, Len(@) - 1)],
                       oldEntry, FALSE)))
    ELSE s

RECURSIVE evictEntries(_)
evictEntries(s) ==
    IF Len(s.entryCache) > cfg.entryCacheMaxSize
    THEN LET oldEntry == s.entryCache[Len(s.entryCache)] IN
         IF exists(s, oldEntry) THEN s
         ELSE evictEntries(sendEntryToMemory(
                  setCached([s EXCEPT !.entryCache = SubSeq(@, 1, Len(@) - 1)],
                            oldEntry, FALSE)))
    ELSE s

updateCache(s, addr) ==
    IF cfg.entryCacheMaxSize = 0 THEN sendEntryToMemory(s)
    ELSE LET s1 == [s EXCEPT !.entryCache = SelectSeq(@, LAMBDA a : a # addr)] IN
         IF s1.directory[addr].state = "I"
         THEN [s1 EXCEPT !.directory[addr] = NoEntry]
         ELSE evictEntries([s1 EXCEPT !.entryCache = <<addr>> \o @])

retrieveDirEntry_keepsState(s, addr, event, inMSHR) ==
    LET al == Alloc(s, event, inMSHR, FALSE, -1)
        state == s.directory[addr].state
        me == [NewEvent(al.s.nextId, "GetS", DirEntryAddr, Dir, Mem) EXCEPT
                   !.global = FALSE, !.size = "entry"]
        issue(s1) == [s1 EXCEPT !.nextId = @ + 1,
                                !.dirMemAccesses = @ \cup {<<me.id, event.addr>>},
                                !.memMsgQueue = QInsert(@, Msg(s.timestamp + cfg.accessLatency,
                                                               me, TRUE))]
    IN IF al.status = "Reject" THEN Ret(al.s, FALSE)
       ELSE IF al.status = "Stall" THEN Ret(al.s, TRUE)
       ELSE IF state \in {"I", "S", "M"} THEN Ret(issue(al.s), TRUE)
       ELSE IF state \in {"I_d", "S_d", "M_d"} THEN Ret(al.s, TRUE)
       ELSE Fatal(al.s, "retrieve a directory entry in an unhandled state")

retrieveDirEntry(s, addr, event, inMSHR) ==
    LET al == Alloc(s, event, inMSHR, FALSE, -1)
        state == s.directory[addr].state
        me == [NewEvent(al.s.nextId, "GetS", DirEntryAddr, Dir, Mem) EXCEPT
                   !.global = FALSE, !.size = "entry"]
        issue(s1) == [s1 EXCEPT !.nextId = @ + 1,
                                !.dirMemAccesses = @ \cup {<<me.id, event.addr>>},
                                !.memMsgQueue = QInsert(@, Msg(s.timestamp + cfg.accessLatency,
                                                               me, TRUE))]
    IN IF al.status = "Reject" THEN Ret(al.s, FALSE)
       ELSE IF al.status = "Stall" THEN Ret(al.s, TRUE)
       ELSE IF state = "I" THEN Ret(issue(setState(al.s, addr, "I_d")), TRUE)
       ELSE IF state = "S" THEN Ret(issue(setState(al.s, addr, "S_d")), TRUE)
       ELSE IF state = "M" THEN Ret(issue(setState(al.s, addr, "M_d")), TRUE)
       ELSE IF state \in {"I_d", "S_d", "M_d"} THEN Ret(al.s, TRUE)
       ELSE Fatal(al.s, "retrieve a directory entry in an unhandled state")

\* NackIfReject that also answers a stalled request with a NACK
NackIfReject_onStall(s, event, status) ==
    Ret(IF status \in {"Reject", "Stall"} THEN sendNACK(s, event) ELSE s, TRUE)

NackIfReject(s, event, status) ==
    Ret(IF status = "Reject" THEN sendNACK(s, event) ELSE s, TRUE)

\* event->setEvict(false): the event object is shared with the MSHR and the buffers
ClearEvictIn(q, event) ==
    [i \in 1..Len(q) |-> IF q[i].id = event.id /\ q[i].cmd = event.cmd
                         THEN [q[i] EXCEPT !.evict = FALSE] ELSE q[i]]
clearEvict(s, event) ==
    [s EXCEPT !.mshr[event.addr].q =
                  [i \in 1..Len(@) |->
                      IF @[i].type = "Event" /\ @[i].ev[1].id = event.id
                         /\ @[i].ev[1].cmd = event.cmd
                      THEN [@[i] EXCEPT !.ev = <<[@[1] EXCEPT !.evict = FALSE]>>]
                      ELSE @[i]],
              !.retryBuffer = ClearEvictIn(@, event),
              !.eventBuffer = ClearEvictIn(@, event)]

\* mshr->decrementAcksNeeded(addr): true when the counter became zero
acksDone(s, addr) == getAcksNeeded(s, addr) = 0

(***************************************************************************)
(* Request handlers                                                        *)
(***************************************************************************)
handleGetS(s0, event, inMSHR) ==
    LET addr == event.addr
        s1 == getDirEntry(s0, addr)
        state == s1.directory[addr].state
        s2 == IF hasData(s1, addr) /\ getDataDirty(s1, addr)
              THEN writebackDataFromMSHR(s1, addr) ELSE s1
        incoherent == event.src \in cfg.incoherentSrc
        al == Alloc(s2, event, inMSHR, FALSE, -1)
        ok == al.status = "OK"
        data == getData(s2, addr)
    IN
    IF ~s1.directory[addr].cached THEN retrieveDirEntry(s1, addr, event, inMSHR)
    ELSE IF state = "I" /\ hasData(s2, addr) /\ inMSHR
    THEN LET r == IF incoherent THEN sendDataResponse(s2, event, data, "GetSResp")
                  ELSE IF cfg.protocol = "MESI"
                  THEN clearData(sendDataResponse(
                           setOwner(setState(s2, addr, "M"), addr, event.src),
                           event, data, "GetXResp"), addr)
                  ELSE sendDataResponse(
                           addSharer(setState(s2, addr, "S"), addr, event.src),
                           event, data, "GetSResp")
         IN Ret(cleanUpAfterRequest(r, event, inMSHR), TRUE)
    ELSE IF state = "I"
    THEN NackIfReject(IF ok THEN setState(issueMemoryRequest(al.s, event, addr, TRUE), addr, "IS")
                      ELSE al.s, event, al.status)
    ELSE IF state = "S" /\ hasData(s2, addr)
    THEN LET r == sendDataResponse(
                      IF incoherent THEN s2 ELSE addSharer(s2, addr, event.src),
                      event, data, "GetSResp")
         IN Ret(cleanUpAfterRequest(r, event, inMSHR), TRUE)
    ELSE IF state = "S"
    THEN NackIfReject(IF ok THEN setState(issueMemoryRequest(al.s, event, addr, TRUE), addr, "S_D")
                      ELSE al.s, event, al.status)
    ELSE IF state = "M"
    THEN NackIfReject(IF ok THEN setState(issueFetch(al.s, event, addr, "FetchInvX"), addr, "M_InvX")
                      ELSE al.s, event, al.status)
    ELSE NackIfReject(al.s, event, al.status)

handleGetX(s0, event, inMSHR) ==
    LET addr == event.addr
        s1 == getDirEntry(s0, addr)
        state == s1.directory[addr].state
        s2 == IF hasData(s1, addr) /\ getDataDirty(s1, addr)
              THEN writebackDataFromMSHR(s1, addr) ELSE s1
        incoherent == event.src \in cfg.incoherentSrc
        al == Alloc(s2, event, inMSHR, FALSE, -1)
        ok == al.status = "OK"
        sa == al.s
        sc == IF hasData(sa, addr) THEN clearData(sa, addr) ELSE sa
    IN
    IF ~s1.directory[addr].cached THEN retrieveDirEntry(s1, addr, event, inMSHR)
    ELSE IF state = "I" /\ hasData(s2, addr) /\ inMSHR
    THEN LET r0 == IF incoherent THEN s2
                   ELSE setOwner(setState(s2, addr, "M"), addr, event.src)
             r1 == clearData(sendDataResponse(r0, event, getData(s2, addr), "GetXResp"), addr)
         IN Ret(cleanUpAfterRequest(r1, event, inMSHR), TRUE)
    ELSE IF state = "I"
    THEN NackIfReject(IF ok THEN issueMemoryRequest(setState(sa, addr, "IM"), event, addr, TRUE)
                      ELSE sa, event, al.status)
    ELSE IF state = "S" /\ isSharer(s2, addr, event.src)
                        /\ Cardinality(s2.directory[addr].sharers) = 1
    THEN LET r0 == IF hasData(s2, addr) THEN clearData(s2, addr) ELSE s2
             r1 == setOwner(removeSharer(setState(r0, addr, "M"), addr, event.src),
                            addr, event.src)
         IN Ret(cleanUpAfterRequest(sendResponse(r1, event), event, inMSHR), TRUE)
    ELSE IF state = "S" /\ isSharer(s2, addr, event.src)
    THEN NackIfReject(IF ok THEN issueInvalidations(setState(sc, addr, "S_Inv"), event, addr, "Inv")
                      ELSE sa, event, al.status)
    ELSE IF state = "S"
    THEN NackIfReject(
             IF ~ok THEN sa
             ELSE IF hasData(sa, addr)
             THEN issueInvalidations(setState(sa, addr, "S_Inv"), event, addr, "Inv")
             ELSE issueInvalidations(
                      issueMemoryRequest(setState(sa, addr, "SM_Inv"), event, addr, TRUE),
                      event, addr, "Inv"),
             event, al.status)
    ELSE IF state = "M"
    THEN NackIfReject(IF ok THEN issueFetch(setState(sa, addr, "M_Inv"), event, addr, "FetchInv")
                      ELSE sa, event, al.status)
    ELSE NackIfReject(sa, event, al.status)

handleGetSX(s0, event, inMSHR) == handleGetX(s0, event, inMSHR)

handleWrite(s0, event, inMSHR) ==
    LET addr == event.addr
        s1 == getDirEntry(s0, addr)
        state == s1.directory[addr].state
        s2 == IF hasData(s1, addr)
              THEN clearData(IF getDataDirty(s1, addr) THEN writebackDataFromMSHR(s1, addr)
                             ELSE s1, addr)
              ELSE s1
        al == Alloc(IF state \in {"I", "S", "M"} THEN s2 ELSE s1, event, inMSHR, FALSE, -1)
        ok == al.status = "OK"
        sa == al.s
    IN
    IF ~s1.directory[addr].cached THEN retrieveDirEntry(s1, addr, event, inMSHR)
    ELSE IF state = "I"
    THEN NackIfReject(IF ok THEN issueMemoryRequest(setState(sa, addr, "IM"), event, addr, FALSE)
                      ELSE sa, event, al.status)
    ELSE IF state = "S"
    THEN NackIfReject(IF ok THEN issueInvalidations(setState(sa, addr, "S_Inv"), event, addr, "Inv")
                      ELSE sa, event, al.status)
    ELSE IF state = "M"
    THEN NackIfReject(IF ok THEN issueFetch(setState(sa, addr, "M_Inv"), event, addr, "FetchInv")
                      ELSE sa, event, al.status)
    ELSE NackIfReject(sa, event, al.status)

\* the evict payload of a flush moved into the MSHR, the event's evict bit cleared
takeEvictData(s, event) ==
    clearEvict(setData(s, event.addr, event.payload, event.dirty), event)

\* a racing Put or Flush that stands for the answer to an outstanding fetch/invalidation
racingAck(s, addr, src) == respErase(decrementAcksNeeded(s, addr), addr, src)

handleFlushLine(s0, event, inMSHR) ==
    LET addr == event.addr
        s1 == getDirEntry(s0, addr)
        state == s1.directory[addr].state
        al == Alloc(s1, event, inMSHR, FALSE, -1)
        ok == al.status = "OK"
        sa == al.s
        ev2 == [event EXCEPT !.evict = FALSE]
        toSharer == addSharer(removeOwner(sa, addr), addr, event.src)
    IN
    IF ~s1.directory[addr].cached THEN retrieveDirEntry(s1, addr, event, inMSHR)
    ELSE IF state = "I"
    THEN NackIfReject(IF ok THEN issueFlush(sa, event) ELSE sa, event, al.status)
    ELSE IF state = "S"
    THEN NackIfReject(IF ok THEN setState(issueFlush(sa, event), addr, "S_B") ELSE sa,
                      event, al.status)
    ELSE IF state = "M"
    THEN IF ~ok THEN NackIfReject(sa, event, al.status)
         ELSE IF event.evict
         THEN Ret(setState(issueFlush(takeEvictData(toSharer, event), ev2), addr, "S_B"), TRUE)
         ELSE IF hasOwner(sa, addr)
         THEN Ret(setState(issueFetch(sa, event, addr, "FetchInvX"), addr, "M_InvX"), TRUE)
         ELSE Ret(setState(issueFlush(sa, event), addr, "S_B"), TRUE)
    ELSE IF state = "M_Inv" /\ event.evict
    THEN NackIfReject(setState(takeEvictData(toSharer, event), addr, "S_Inv"), ev2, al.status)
    ELSE IF state = "M_InvX" /\ event.evict
    THEN LET r0 == setState(setData(toSharer, addr, event.payload, event.dirty), addr, "S")
             r1 == racingAck(r0, addr, event.src)
         IN NackIfReject(pushRetryFront(r1, addr), event, al.status)
    ELSE NackIfReject(sa, event, al.status)

handleFlushLineInv(s0, event, inMSHR) ==
    LET addr == event.addr
        s1 == getDirEntry(s0, addr)
        state == s1.directory[addr].state
        al == Alloc(s1, event, inMSHR, FALSE, -1)
        ok == al.status = "OK"
        sa == al.s
        ev2 == [event EXCEPT !.evict = FALSE]
        \* entry->removeSharer(src); event->setEvict(false); responses erase; decrement
        shr == racingAck(clearEvict(removeSharer(sa, addr, event.src), event), addr, event.src)
    IN
    IF ~s1.directory[addr].cached THEN retrieveDirEntry(s1, addr, event, inMSHR)
    ELSE IF state = "I"
    THEN NackIfReject(IF ok THEN issueFlush(sa, event) ELSE sa, event, al.status)
    ELSE IF state = "S"
    THEN IF ~ok THEN NackIfReject(sa, event, al.status)
         ELSE LET r0 == IF event.evict
                        THEN clearEvict(removeSharer(sa, addr, event.src), event) ELSE sa
              IN IF hasSharers(r0, addr)
                 THEN Ret(issueInvalidations(setState(r0, addr, "S_Inv"), ev2, addr, "Inv"), TRUE)
                 ELSE Ret(issueFlush(setState(r0, addr, "I_B"), ev2), TRUE)
    ELSE IF state = "M"
    THEN IF ~ok THEN NackIfReject(sa, event, al.status)
         ELSE LET r0 == IF event.evict THEN takeEvictData(removeOwner(sa, addr), event) ELSE sa
              IN IF hasOwner(r0, addr)
                 THEN Ret(issueFetch(setState(r0, addr, "M_Inv"), ev2, addr, "FetchInv"), TRUE)
                 ELSE Ret(issueFlush(setState(r0, addr, "I_B"), ev2), TRUE)
    ELSE IF state = "S_D" /\ event.evict
    THEN LET r0 == clearEvict(removeSharer(sa, addr, event.src), event)
         IN NackIfReject(IF hasSharers(r0, addr) THEN r0 ELSE setState(r0, addr, "IS"),
                         ev2, al.status)
    ELSE IF state = "S_B" /\ event.evict
    THEN LET r0 == clearEvict(removeSharer(sa, addr, event.src), event)
         IN NackIfReject(IF hasSharers(r0, addr) THEN r0 ELSE setState(r0, addr, "I"),
                         ev2, al.status)
    ELSE IF state = "M_InvX" /\ event.evict
    THEN LET r0 == racingAck(takeEvictData(removeOwner(sa, addr), event), addr, event.src)
         IN NackIfReject(IF acksDone(r0, addr) THEN pushRetryFront(setState(r0, addr, "I"), addr)
                         ELSE r0, ev2, al.status)
    ELSE IF state = "SD_Inv" /\ event.evict
    THEN NackIfReject(
             IF acksDone(shr, addr)
             THEN pushRetryFront(setState(shr, addr, IF hasSharers(shr, addr) THEN "S_D" ELSE "IS"),
                                 addr)
             ELSE shr, ev2, al.status)
    ELSE IF state = "SM_Inv" /\ event.evict
    THEN NackIfReject(IF acksDone(shr, addr) THEN setState(shr, addr, "IM") ELSE shr,
                      ev2, al.status)
    ELSE IF state = "S_Inv" /\ event.evict
    THEN NackIfReject(
             IF acksDone(shr, addr)
             THEN pushRetryFront(setState(shr, addr, IF hasSharers(shr, addr) THEN "S" ELSE "I"),
                                 addr)
             ELSE shr, ev2, al.status)
    ELSE IF state = "M_Inv" /\ event.evict
    THEN NackIfReject(IF acksDone(shr, addr) THEN pushRetryFront(setState(shr, addr, "I"), addr)
                      ELSE shr, ev2, al.status)
    ELSE NackIfReject(sa, event, al.status)

\* mutant of handlePutS: acknowledges the PutS and leaves the sharer in place
handlePutS_keepsSharer(s0, event, inMSHR) ==
    Ret(cleanUpAfterRequest(sendAckPut(getDirEntry(s0, event.addr), event),
                            event, inMSHR), TRUE)

handlePutS(s0, event, inMSHR) ==
    LET addr == event.addr
        s1 == getDirEntry(s0, addr)
        state == s1.directory[addr].state
        s2 == sendAckPut(removeSharer(s1, addr, event.src), event)
        s3 == IF s2.responses[addr].present /\ respHas(s2, addr, event.src)
              THEN respErase(s2, addr, event.src) ELSE s2
        none == ~hasSharers(s3, addr)
        d == decrementAcksNeeded(s3, addr)
        r == CASE state = "S" -> IF none THEN setState(s3, addr, "I") ELSE s3
               [] state = "S_B" -> IF none THEN setState(s3, addr, "I") ELSE s3
               [] state = "S_D" -> IF none THEN setState(s3, addr, "IS") ELSE s3
               [] state = "S_Inv" ->
                      IF acksDone(d, addr)
                      THEN setInProgress(
                               pushRetryFront(setState(d, addr, IF none THEN "I" ELSE "S"), addr),
                               addr)
                      ELSE d
               [] state = "SD_Inv" ->
                      IF acksDone(d, addr) THEN setState(d, addr, IF none THEN "IS" ELSE "S_D")
                      ELSE d
               [] state = "SM_Inv" -> IF acksDone(d, addr) THEN setState(d, addr, "IM") ELSE d
               [] OTHER -> Fatal(s3, "PutS in an unhandled state")
        c == cleanUpAfterRequest(r, event, inMSHR)
    IN
    IF ~s1.directory[addr].cached THEN retrieveDirEntry(s1, addr, event, inMSHR)
    ELSE Ret(IF state = "S" THEN updateCache(c, addr) ELSE c, TRUE)

handlePutX(s0, event, inMSHR) ==
    LET addr == event.addr
        s1 == getDirEntry(s0, addr)
        state == s1.directory[addr].state
        s2 == sendAckPut(addSharer(removeOwner(s1, addr), addr, event.src), event)
        r == CASE state = "M" ->
                      setState(IF event.dirty THEN writebackData(s2, event) ELSE s2, addr, "S")
               [] state = "M_Inv" ->
                      setState(setData(s2, addr, event.payload, event.dirty), addr, "S_Inv")
               [] state = "M_InvX" ->
                      setState(setData(racingAck(s2, addr, event.src), addr,
                                       event.payload, event.dirty), addr, "S")
               [] OTHER -> Fatal(s2, "PutX in an unhandled state")
        c == cleanUpAfterRequest(r, event, inMSHR)
    IN
    IF ~s1.directory[addr].cached THEN retrieveDirEntry(s1, addr, event, inMSHR)
    ELSE Ret(IF state = "M" THEN updateCache(c, addr) ELSE c, TRUE)

handlePutE(s0, event, inMSHR) ==
    LET addr == event.addr
        s1 == getDirEntry(s0, addr)
        state == s1.directory[addr].state
        s2 == sendAckPut(removeOwner(s1, addr), event)
        r == CASE state = "M" -> setState(s2, addr, "I")
               [] state \in {"M_Inv", "M_InvX"} ->
                      setState(setData(racingAck(s2, addr, event.src), addr,
                                       event.payload, event.dirty), addr, "I")
               [] OTHER -> Fatal(s2, "PutE in an unhandled state")
        c == cleanUpAfterRequest(r, event, inMSHR)
    IN
    IF ~s1.directory[addr].cached THEN retrieveDirEntry(s1, addr, event, inMSHR)
    ELSE Ret(IF state = "M" THEN updateCache(c, addr) ELSE c, TRUE)

handlePutM(s0, event, inMSHR) ==
    LET addr == event.addr
        s1 == getDirEntry(s0, addr)
        state == s1.directory[addr].state
        s2 == sendAckPut(removeOwner(s1, addr), event)
        r == CASE state = "M" -> setState(writebackData(s2, event), addr, "I")
               [] state \in {"M_Inv", "M_InvX"} ->
                      setState(setData(racingAck(s2, addr, event.src), addr,
                                       event.payload, event.dirty), addr, "I")
               [] OTHER -> Fatal(s2, "PutM in an unhandled state")
        c == cleanUpAfterRequest(r, event, inMSHR)
    IN
    IF ~s1.directory[addr].cached THEN retrieveDirEntry(s1, addr, event, inMSHR)
    ELSE Ret(IF state = "M" THEN updateCache(c, addr) ELSE c, TRUE)

handleFetchInv(s0, event, inMSHR) ==
    LET addr == event.addr
        s1 == getDirEntry(s0, addr)
        state == s1.directory[addr].state
        frontFlushInv == exists(s1, addr) /\ getFrontType(s1, addr) = "Event"
                         /\ getFrontEvent(s1, addr).cmd = "FlushLineInv"
        al(pos) == Alloc(s1, event, inMSHR, TRUE, pos)
        done(s) == Ret(cleanUpAfterRequest(s, event, inMSHR), TRUE)
    IN
    IF ~s1.directory[addr].cached THEN retrieveDirEntry(s1, addr, event, inMSHR)
    ELSE IF state = "I"
    THEN IF ~(pendingWriteback(s1, addr) \/ frontFlushInv)
            /\ hasData(s1, addr) /\ getDataDirty(s1, addr)
         THEN done(sendFetchResponse(s1, event))
         ELSE done(sendAckInv(s1, event))
    ELSE IF state = "S"
    THEN NackIfReject(IF al(-1).status = "OK"
                      THEN setState(issueInvalidations(al(-1).s, event, addr, "Inv"), addr, "S_Inv")
                      ELSE al(-1).s, event, al(-1).status)
    ELSE IF state = "M"
    THEN NackIfReject(IF al(-1).status = "OK"
                      THEN setState(issueFetch(al(-1).s, event, addr, "FetchInv"), addr, "M_Inv")
                      ELSE al(-1).s, event, al(-1).status)
    ELSE IF state \in {"IS", "IM"}
    THEN done(IF ~pendingWriteback(s1, addr) THEN sendAckInv(s1, event) ELSE s1)
    ELSE IF state = "I_B"
    THEN done(setState(sendAckInv(s1, event), addr, "I"))
    ELSE IF state \in {"S_B", "S_D"}
    THEN NackIfReject(IF al(0).status = "OK"
                      THEN setState(issueInvalidations(al(0).s, event, addr, "Inv"), addr,
                                    IF state = "S_B" THEN "SB_Inv" ELSE "SD_Inv")
                      ELSE al(0).s, event, al(0).status)
    ELSE IF state \in {"S_Inv", "M_Inv", "M_InvX"}
    THEN NackIfReject(al(1).s, event, al(1).status)
    ELSE IF state = "SM_Inv"
    THEN NackIfReject(al(0).s, event, al(0).status)
    ELSE Fatal(s1, "FetchInv in an unhandled state")

handleForceInv(s0, event, inMSHR) ==
    LET addr == event.addr
        s1 == getDirEntry(s0, addr)
        state == s1.directory[addr].state
        al(pos) == Alloc(s1, event, inMSHR, TRUE, pos)
        done(s) == Ret(cleanUpAfterRequest(s, event, inMSHR), TRUE)
    IN
    IF ~s1.directory[addr].cached THEN retrieveDirEntry(s1, addr, event, inMSHR)
    ELSE IF state = "I"
    THEN done(sendAckInv(s1, event))
    ELSE IF state = "S"
    THEN NackIfReject(IF al(0).status = "OK"
                      THEN setState(issueInvalidations(al(0).s, event, addr, "ForceInv"),
                                    addr, "S_Inv")
                      ELSE al(0).s, event, al(0).status)
    ELSE IF state = "M"
    THEN NackIfReject(IF al(0).status = "OK"
                      THEN setState(issueInvalidation(al(0).s, s1.directory[addr].owner,
                                                      event, addr, "ForceInv"), addr, "M_Inv")
                      ELSE al(0).s, event, al(0).status)
    ELSE IF state \in {"IS", "IM", "I_B"}
    THEN done(IF ~pendingWriteback(s1, addr) THEN sendAckInv(s1, event) ELSE s1)
    ELSE IF state \in {"S_B", "S_D"}
    THEN NackIfReject(IF al(0).status = "OK"
                      THEN setState(issueInvalidations(al(0).s, event, addr, "ForceInv"), addr,
                                    IF state = "S_B" THEN "SB_Inv" ELSE "SD_Inv")
                      ELSE al(0).s, event, al(0).status)
    ELSE IF state \in {"S_Inv", "M_Inv", "M_InvX"}
    THEN NackIfReject(al(1).s, event, al(1).status)
    ELSE IF state = "SM_Inv"
    THEN NackIfReject(al(0).s, event, al(0).status)
    ELSE Fatal(s1, "ForceInv in an unhandled state")

(***************************************************************************)
(* Response handlers                                                       *)
(***************************************************************************)
NoFront(s) == Fatal(s, "ub: getFrontEvent of an address with no front event")

\* handleGetSResp without the incoherentSrc test: every requester becomes a sharer
handleGetSResp_alwaysSharer(s0, event, inMSHR) ==
    LET addr == event.addr
        s1 == getDirEntry(s0, addr)
        state == s1.directory[addr].state
        reqEv == getFrontEvent(s1, addr)
        s2 == addSharer(setState(s1, addr, "S"), addr, reqEv.src)
        s3 == sendDataResponse(s2, reqEv, event.payload, "GetSResp")
    IN
    IF state \notin {"IS", "S_D"} THEN Fatal(s1, "GetSResp in an unhandled state")
    ELSE IF ~hasFrontEvent(s1, addr) THEN NoFront(s1)
    ELSE Ret(cleanUpAfterResponse(setData(s3, addr, event.payload, FALSE), event), TRUE)

handleGetSResp(s0, event, inMSHR) ==
    LET addr == event.addr
        s1 == getDirEntry(s0, addr)
        state == s1.directory[addr].state
        reqEv == getFrontEvent(s1, addr)
        s2 == IF reqEv.src \notin cfg.incoherentSrc
              THEN addSharer(setState(s1, addr, "S"), addr, reqEv.src)
              ELSE IF state = "IS" THEN setState(s1, addr, "I")
              ELSE setState(s1, addr, "S")
        s3 == sendDataResponse(s2, reqEv, event.payload, "GetSResp")
    IN
    IF state \notin {"IS", "S_D"} THEN Fatal(s1, "GetSResp in an unhandled state")
    ELSE IF ~hasFrontEvent(s1, addr) THEN NoFront(s1)
    ELSE Ret(cleanUpAfterResponse(setData(s3, addr, event.payload, FALSE), event), TRUE)

\* handleGetXResp without the MESI arm of case IS
handleGetXResp_noUpgrade(s0, event, inMSHR) ==
    LET addr == event.addr
        s1 == getDirEntry(s0, addr)
        state == s1.directory[addr].state
        reqEv == getFrontEvent(s1, addr)
        incoherent == reqEv.src \in cfg.incoherentSrc
        asS == setData(sendDataResponse(
                           IF incoherent THEN setState(s1, addr, "S")
                           ELSE addSharer(setState(s1, addr, "S"), addr, reqEv.src),
                           reqEv, event.payload, "GetSResp"),
                       addr, event.payload, FALSE)
        asM == sendDataResponse(setOwner(setState(s1, addr, "M"), addr, reqEv.src),
                                reqEv, event.payload, "GetXResp")
    IN
    IF state = "SM_Inv"
    THEN Ret(setData(setState(s1, addr, "S_Inv"), addr, event.payload, FALSE), TRUE)
    ELSE IF state \notin {"IS", "S_D", "IM"} THEN Fatal(s1, "GetXResp in an unhandled state")
    ELSE IF ~hasFrontEvent(s1, addr) THEN NoFront(s1)
    ELSE IF state = "IS" /\ incoherent
    THEN Ret(cleanUpAfterResponse(
                 sendDataResponse(setState(s1, addr, "I"), reqEv, event.payload, "GetSResp"),
                 event), TRUE)
    ELSE IF state \in {"IS", "S_D"}
    THEN Ret(cleanUpAfterResponse(asS, event), TRUE)
    ELSE IF incoherent
    THEN Ret(cleanUpAfterResponse(
                 sendDataResponse(setState(s1, addr, "I"), reqEv, event.payload, "GetXResp"),
                 event), TRUE)
    ELSE Ret(cleanUpAfterResponse(asM, event), TRUE)

handleGetXResp(s0, event, inMSHR) ==
    LET addr == event.addr
        s1 == getDirEntry(s0, addr)
        state == s1.directory[addr].state
        reqEv == getFrontEvent(s1, addr)
        incoherent == reqEv.src \in cfg.incoherentSrc
        asS == setData(sendDataResponse(
                           IF incoherent THEN setState(s1, addr, "S")
                           ELSE addSharer(setState(s1, addr, "S"), addr, reqEv.src),
                           reqEv, event.payload, "GetSResp"),
                       addr, event.payload, FALSE)
        asM == sendDataResponse(setOwner(setState(s1, addr, "M"), addr, reqEv.src),
                                reqEv, event.payload, "GetXResp")
    IN
    IF state = "SM_Inv"
    THEN Ret(setData(setState(s1, addr, "S_Inv"), addr, event.payload, FALSE), TRUE)
    ELSE IF state \notin {"IS", "S_D", "IM"} THEN Fatal(s1, "GetXResp in an unhandled state")
    ELSE IF ~hasFrontEvent(s1, addr) THEN NoFront(s1)
    ELSE IF state = "IS" /\ incoherent
    THEN Ret(cleanUpAfterResponse(
                 sendDataResponse(setState(s1, addr, "I"), reqEv, event.payload, "GetSResp"),
                 event), TRUE)
    ELSE IF state = "IS" /\ cfg.protocol = "MESI"
    THEN Ret(cleanUpAfterResponse(asM, event), TRUE)
    ELSE IF state \in {"IS", "S_D"}
    THEN Ret(cleanUpAfterResponse(asS, event), TRUE)
    ELSE IF incoherent
    THEN Ret(cleanUpAfterResponse(
                 sendDataResponse(setState(s1, addr, "I"), reqEv, event.payload, "GetXResp"),
                 event), TRUE)
    ELSE Ret(cleanUpAfterResponse(asM, event), TRUE)

handleWriteResp(s0, event, inMSHR) ==
    LET addr == event.addr
        s1 == getDirEntry(s0, addr)
        state == s1.directory[addr].state
        reqEv == getFrontEvent(s1, addr)
        resp == makeResponse(reqEv, ResponseOf(reqEv.cmd))
    IN
    IF state # "IM" THEN Fatal(s1, "WriteResp in an unhandled state")
    ELSE IF ~hasFrontEvent(s1, addr) THEN NoFront(s1)
    ELSE Ret(cleanUpAfterResponse(
                 forwardByDestination(setState(s1, addr, "I"), resp,
                                      s1.timestamp + cfg.mshrLatency), event), TRUE)

\* handleFlushLineResp without the response to the requester
handleFlushLineResp_noResponse(s0, event, inMSHR) ==
    LET addr == event.addr
        s1 == getDirEntry(s0, addr)
        state == s1.directory[addr].state
        s2 == clearData(s1, addr)
        s3 == CASE state = "I_B" -> setState(s2, addr, "I")
                [] state = "S_B" -> setState(s2, addr, "S")
                [] OTHER -> s2
    IN
    IF state \notin {"I", "I_B", "S_B"} THEN Fatal(s1, "FlushLineResp in an unhandled state")
    ELSE IF ~hasFrontEvent(s1, addr) THEN NoFront(s1)
    ELSE Ret(cleanUpAfterResponse(s3, event), TRUE)

handleFlushLineResp(s0, event, inMSHR) ==
    LET addr == event.addr
        s1 == getDirEntry(s0, addr)
        state == s1.directory[addr].state
        reqEv == getFrontEvent(s1, addr)
        s2 == clearData(s1, addr)
        s3 == CASE state = "I_B" -> setState(s2, addr, "I")
                [] state = "S_B" -> setState(s2, addr, "S")
                [] OTHER -> s2
    IN
    IF state \notin {"I", "I_B", "S_B"} THEN Fatal(s1, "FlushLineResp in an unhandled state")
    ELSE IF ~hasFrontEvent(s1, addr) THEN NoFront(s1)
    ELSE Ret(cleanUpAfterResponse(sendResponse(s3, reqEv), event), TRUE)

handleAckPut(s0, event, inMSHR) ==
    Ret(cleanUpAfterResponse(getDirEntry(s0, event.addr), event), TRUE)

\* handleAckInv with the SM_Inv arm pushing the front event like the other arms
handleAckInv_retriesInSM(s0, event, inMSHR) ==
    LET addr == event.addr
        s1 == getDirEntry(s0, addr)
        state == s1.directory[addr].state
        s2 == IF isSharer(s1, addr, event.src) THEN removeSharer(s1, addr, event.src)
              ELSE removeOwner(s1, addr)
        s3 == respErase(decrementAcksNeeded(s2, addr), addr, event.src)
        shr == hasSharers(s3, addr)
    IN
    IF ~acksDone(s3, addr) THEN Ret(s3, TRUE)
    ELSE IF state = "M_Inv" THEN Ret(pushRetryFront(setState(s3, addr, "I"), addr), TRUE)
    ELSE IF state = "S_Inv"
    THEN Ret(pushRetryFront(setState(s3, addr, IF shr THEN "S" ELSE "I"), addr), TRUE)
    ELSE IF state = "SB_Inv"
    THEN Ret(pushRetryFront(setState(s3, addr, IF shr THEN "S_B" ELSE "I"), addr), TRUE)
    ELSE IF state = "SD_Inv"
    THEN Ret(pushRetryFront(setState(s3, addr, IF shr THEN "S_D" ELSE "IS"), addr), TRUE)
    ELSE IF state = "SM_Inv" THEN Ret(pushRetryFront(setState(s3, addr, "IM"), addr), TRUE)
    ELSE Fatal(s3, "AckInv in an unhandled state")

handleAckInv(s0, event, inMSHR) ==
    LET addr == event.addr
        s1 == getDirEntry(s0, addr)
        state == s1.directory[addr].state
        s2 == IF isSharer(s1, addr, event.src) THEN removeSharer(s1, addr, event.src)
              ELSE removeOwner(s1, addr)
        s3 == respErase(decrementAcksNeeded(s2, addr), addr, event.src)
        shr == hasSharers(s3, addr)
    IN
    IF ~acksDone(s3, addr) THEN Ret(s3, TRUE)
    ELSE IF state = "M_Inv" THEN Ret(pushRetryFront(setState(s3, addr, "I"), addr), TRUE)
    ELSE IF state = "S_Inv"
    THEN Ret(pushRetryFront(setState(s3, addr, IF shr THEN "S" ELSE "I"), addr), TRUE)
    ELSE IF state = "SB_Inv"
    THEN Ret(pushRetryFront(setState(s3, addr, IF shr THEN "S_B" ELSE "I"), addr), TRUE)
    ELSE IF state = "SD_Inv"
    THEN Ret(pushRetryFront(setState(s3, addr, IF shr THEN "S_D" ELSE "IS"), addr), TRUE)
    ELSE IF state = "SM_Inv" THEN Ret(setState(s3, addr, "IM"), TRUE)
    ELSE Fatal(s3, "AckInv in an unhandled state")

handleFetchXResp(s0, event, inMSHR) ==
    LET addr == event.addr
        s1 == getDirEntry(s0, addr)
        state == s1.directory[addr].state
        s2 == setData(racingAck(s1, addr, event.src), addr, event.payload, event.dirty)
        s3 == setState(addSharer(removeOwner(s2, addr), addr, event.src), addr, "S")
    IN
    IF state # "M_InvX" THEN Fatal(s1, "FetchXResp in an unhandled state")
    ELSE Ret(pushRetryFront(s3, addr), TRUE)

\* handleFetchResp without the writeback of dirty data
handleFetchResp_noWriteback(s0, event, inMSHR) ==
    LET addr == event.addr
        s1 == getDirEntry(s0, addr)
        state == s1.directory[addr].state
        s2 == setData(racingAck(s1, addr, event.src), addr, event.payload, event.dirty)
        s3 == pushRetryFront(setState(s2, addr, "I"), addr)
    IN
    IF state \notin {"S_Inv", "M_Inv"} THEN Fatal(s1, "FetchResp in an unhandled state")
    ELSE Ret(s3, TRUE)

handleFetchResp(s0, event, inMSHR) ==
    LET addr == event.addr
        s1 == getDirEntry(s0, addr)
        state == s1.directory[addr].state
        s2 == setData(racingAck(s1, addr, event.src), addr, event.payload, event.dirty)
        s3 == pushRetryFront(setState(s2, addr, "I"), addr)
    IN
    IF state \notin {"S_Inv", "M_Inv"} THEN Fatal(s1, "FetchResp in an unhandled state")
    ELSE Ret(IF event.dirty THEN writebackDataFromMSHR(s3, addr) ELSE s3, TRUE)

\* mutant of handleNACK: sends every nacked event again
handleNACK_alwaysResends(s0, event, inMSHR) ==
    Ret(forwardByDestination(getDirEntry(s0, event.addr), event.nacked[1],
                             s0.timestamp + cfg.mshrLatency), TRUE)

handleNACK(s0, event, inMSHR) ==
    LET addr == event.addr
        s1 == getDirEntry(s0, addr)
        nackedEvent == event.nacked[1]
        cmd == nackedEvent.cmd
        resend == forwardByDestination(s1, nackedEvent, s1.timestamp + cfg.mshrLatency)
    IN
    IF cmd \in {"GetS", "GetX", "GetSX", "PutM", "FlushLine", "FlushLineInv"}
    THEN Ret(resend, TRUE)
    ELSE IF cmd \in {"FetchInv", "FetchInvX", "Inv", "ForceInv"}
    THEN IF s1.responses[addr].present /\ respHas(s1, addr, nackedEvent.dst)
            /\ respId(s1, addr, nackedEvent.dst) = nackedEvent.id
         THEN Ret(resend, TRUE)
         ELSE Ret(s1, TRUE)
    ELSE Fatal(s1, "NACK in an unhandled state")

\* handleDirEntryResponse that retries nothing
handleDirEntryResponse_noRetry(s0, event) ==
    LET found == {p \in s0.dirMemAccesses : p[1] = event.respTo}
        addr == (CHOOSE p \in found : TRUE)[2]
        s1 == getDirEntry([s0 EXCEPT !.dirMemAccesses = @ \ found], addr)
        state == s1.directory[addr].state
        s2 == CASE state = "I_d" -> setState(s1, addr, "I")
                [] state = "S_d" -> setState(s1, addr, "S")
                [] state = "M_d" -> setState(s1, addr, "M")
                [] OTHER -> Fatal(s1, "directory entry response in an unhandled state")
    IN
    IF found = {} THEN Fatal(s0, "ub: dirMemAccesses.find(id) == end()")
    ELSE Ret(setCached(s2, addr, TRUE), TRUE)

handleDirEntryResponse(s0, event) ==
    LET found == {p \in s0.dirMemAccesses : p[1] = event.respTo}
        addr == (CHOOSE p \in found : TRUE)[2]
        s1 == getDirEntry([s0 EXCEPT !.dirMemAccesses = @ \ found], addr)
        state == s1.directory[addr].state
        s2 == CASE state = "I_d" -> setState(s1, addr, "I")
                [] state = "S_d" -> setState(s1, addr, "S")
                [] state = "M_d" -> setState(s1, addr, "M")
                [] OTHER -> Fatal(s1, "directory entry response in an unhandled state")
    IN
    IF found = {} THEN Fatal(s0, "ub: dirMemAccesses.find(id) == end()")
    ELSE Ret(pushRetryFront(setCached(s2, addr, TRUE), addr), TRUE)

\* the line whose DirEntry an event's handler works on
lineOf(s, ev) ==
    IF ev.global THEN ev.addr
    ELSE LET found == {p \in s.dirMemAccesses : p[1] = ev.respTo} IN
         IF found = {} THEN ev.addr ELSE (CHOOSE p \in found : TRUE)[2]

(***************************************************************************)
(* Event pump                                                              *)
(***************************************************************************)
arbitrateAccess(s, addr) == addr \notin s.addrsThisCycle

\* what a clock call consumed: the line whose entry the handler worked on
Consumed(s, line, ev) ==
    [s EXCEPT !.processed = Append(@, [line |-> line, cmd |-> ev.cmd, id |-> ev.id,
                                       global |-> ev.global, src |-> ev.src,
                                       of |-> IF ev.nacked = <<>> THEN ""
                                              ELSE ev.nacked[1].cmd])]

Dispatch(s, ev, replay) ==
    CASE ev.cmd = "GetS" -> handleGetS(s, ev, replay)
      [] ev.cmd = "GetSX" -> handleGetSX(s, ev, replay)
      [] ev.cmd = "GetX" -> handleGetX(s, ev, replay)
      [] ev.cmd = "Write" -> handleWrite(s, ev, replay)
      [] ev.cmd = "PutS" -> handlePutS(s, ev, replay)
      [] ev.cmd = "PutE" -> handlePutE(s, ev, replay)
      [] ev.cmd = "PutX" -> handlePutX(s, ev, replay)
      [] ev.cmd = "PutM" -> handlePutM(s, ev, replay)
      [] ev.cmd = "FlushLineInv" -> handleFlushLineInv(s, ev, replay)
      [] ev.cmd = "FlushLine" -> handleFlushLine(s, ev, replay)
      [] ev.cmd = "FetchInv" -> handleFetchInv(s, ev, replay)
      [] ev.cmd = "ForceInv" -> handleForceInv(s, ev, replay)
      [] ev.cmd = "GetXResp" -> handleGetXResp(s, ev, replay)
      [] ev.cmd = "GetSResp" -> handleGetSResp(s, ev, replay)
      [] ev.cmd = "WriteResp" -> handleWriteResp(s, ev, replay)
      [] ev.cmd = "FlushLineResp" -> handleFlushLineResp(s, ev, replay)
      [] ev.cmd = "AckInv" -> handleAckInv(s, ev, replay)
      [] ev.cmd = "AckPut" -> handleAckPut(s, ev, replay)
      [] ev.cmd = "FetchResp" -> handleFetchResp(s, ev, replay)
      [] ev.cmd = "FetchXResp" -> handleFetchXResp(s, ev, replay)
      [] ev.cmd = "NACK" -> handleNACK(s, ev, replay)
      [] OTHER -> Fatal(s, "unrecognized request")

processPacket(s, ev, replay) ==
    LET addr == ev.addr IN
    IF ~arbitrateAccess(s, addr) THEN Ret(s, FALSE)
    ELSE IF ~ev.global
    THEN Ret(Consumed(handleDirEntryResponse(s, ev), lineOf(s, ev), ev), TRUE)
    ELSE With(Dispatch(s, ev, replay), LAMBDA r :
         IF r.ret
         THEN Consumed([r EXCEPT !.addrsThisCycle = @ \cup {addr}], addr, ev)
         ELSE r)

\* the events sendOutgoingEvents hands to the links: cpu link first, then memory link
Due(q, ts) == SelectSeq(q, LAMBDA m : m.time <= ts)
Sent(s, ts) ==
    [i \in 1..(Len(Due(s.cpuMsgQueue, ts)) + Len(Due(s.memMsgQueue, ts))) |->
        IF i <= Len(Due(s.cpuMsgQueue, ts)) THEN s.cpuMsgQueue[i].ev
        ELSE s.memMsgQueue[i - Len(Due(s.cpuMsgQueue, ts))].ev]

sendOutgoingEvents(s) ==
    [s EXCEPT !.cpuMsgQueue = SubSeq(@, UpperBound(@, s.timestamp) + 1, Len(@)),
              !.memMsgQueue = SubSeq(@, UpperBound(@, s.timestamp) + 1, Len(@))]

\* the limit test of the loops comparing with one request more
RequestsLeft_oneMore(n) == cfg.maxRequestsPerCycle = 0 \/ n # cfg.maxRequestsPerCycle + 1

RequestsLeft(n) == cfg.maxRequestsPerCycle = 0 \/ n # cfg.maxRequestsPerCycle

\* the retry loop of clock(): returns the state and the requests handled so far
RECURSIVE retryLoop(_, _, _)
retryLoop(s, i, n) ==
    IF s.fatal # "" \/ i > Len(s.retryBuffer) \/ ~RequestsLeft(n) THEN [s |-> s, n |-> n]
    ELSE With(processPacket(s, s.retryBuffer[i], TRUE), LAMBDA r :
         IF r.ret THEN retryLoop([r EXCEPT !.retryBuffer = RemoveAt(@, i)], i, n + 1)
         ELSE retryLoop(r, i + 1, n))

RECURSIVE eventLoop(_, _, _)
eventLoop(s, i, n) ==
    IF s.fatal # "" \/ i > Len(s.eventBuffer) \/ ~RequestsLeft(n) THEN s
    ELSE With(processPacket(s, s.eventBuffer[i], FALSE), LAMBDA r :
         IF r.ret THEN eventLoop([r EXCEPT !.eventBuffer = RemoveAt(@, i)], i, n + 1)
         ELSE eventLoop(r, i + 1, n))

\* linksIdle: what cpuLink->clock() and memLink->clock() report (TRUE for a link
\* that is not clocked)
clock(s, cyc, linksIdle) ==
    With(sendOutgoingEvents([s EXCEPT !.timestamp = cyc]), LAMBDA s1 :
    With(retryLoop([s1 EXCEPT !.addrsThisCycle = {}, !.processed = <<>>], 1, 0), LAMBDA rl :
    With(eventLoop(rl.s, 1, rl.n), LAMBDA s3 :
    LET idle == /\ linksIdle
                /\ s3.eventBuffer = <<>> /\ s3.retryBuffer = <<>>
                /\ s3.cpuMsgQueue = <<>> /\ s3.memMsgQueue = <<>>
    IN IF idle /\ s3.clockOn THEN [s3 EXCEPT !.clockOn = FALSE] ELSE s3)))

\* reregisterClock returns the next cycle; timestamp is set to the current one
turnClockOn(s, now) == [s EXCEPT !.clockOn = TRUE, !.timestamp = now]

handleNoncacheableRequest(s, ev) ==
    LET s1 == IF ~ev.noresp
              THEN [s EXCEPT !.noncacheMemReqs =
                                 {p \in @ : p[1] # ev.id} \cup {<<ev.id, ev.src>>}]
              ELSE s
    IN forwardByAddress(s1, [ev EXCEPT !.src = Dir], s.timestamp + 1)

\* handleNoncacheableResponse without noncacheMemReqs.erase
handleNoncacheableResponse_keepsRecord(s, ev) ==
    LET found == {p \in s.noncacheMemReqs : p[1] = ev.id} IN
    IF found = {}
    THEN Fatal(s, "noncacheable response that does not match a pending request")
    ELSE forwardByDestination(s,
                              [ev EXCEPT !.dst = (CHOOSE p \in found : TRUE)[2],
                                         !.src = Dir],
                              s.timestamp + 1)

handleNoncacheableResponse(s, ev) ==
    LET found == {p \in s.noncacheMemReqs : p[1] = ev.id} IN
    IF found = {}
    THEN Fatal(s, "noncacheable response that does not match a pending request")
    ELSE forwardByDestination([s EXCEPT !.noncacheMemReqs = @ \ found],
                              [ev EXCEPT !.dst = (CHOOSE p \in found : TRUE)[2],
                                         !.src = Dir],
                              s.timestamp + 1)

\* handlePacket without the turnClockOn call
handlePacket_staysOff(s, ev, now) ==
    IF ev.nc
    THEN IF ev.cmd \in RequestCmds THEN handleNoncacheableRequest(s, ev)
         ELSE handleNoncacheableResponse(s, ev)
    ELSE [s EXCEPT !.eventBuffer = Append(@, ev)]

handlePacket(s, ev, now) ==
    LET s1 == IF ~s.clockOn THEN turnClockOn(s, now) ELSE s IN
    IF ev.nc
    THEN IF ev.cmd \in RequestCmds THEN handleNoncacheableRequest(s1, ev)
         ELSE handleNoncacheableResponse(s1, ev)
    ELSE [s1 EXCEPT !.eventBuffer = Append(@, ev)]

(***************************************************************************)
(* The controller's state as one record, and back                          *)
(***************************************************************************)
Pack ==
    [directory |-> directory, entryCache |-> entryCache, mshr |-> mshr,
     responses |-> responses, eventBuffer |-> eventBuffer, retryBuffer |-> retryBuffer,
     cpuMsgQueue |-> cpuMsgQueue, memMsgQueue |-> memMsgQueue,
     addrsThisCycle |-> addrsThisCycle, timestamp |-> timestamp, clockOn |-> clockOn,
     noncacheMemReqs |-> noncacheMemReqs, dirMemAccesses |-> dirMemAccesses,
     nextId |-> nextId, fatal |-> fatal, processed |-> processed, ret |-> FALSE]

\* out.fatal() ends the simulation: nothing but the error is left to observe
Install(s) ==
    IF s.fatal # ""
    THEN /\ fatal' = s.fatal
         /\ UNCHANGED <<directory, entryCache, mshr, responses, eventBuffer, retryBuffer,
                        cpuMsgQueue, memMsgQueue, addrsThisCycle, timestamp, clockOn,
                        noncacheMemReqs, dirMemAccesses, nextId, processed>>
    ELSE /\ directory' = s.directory
         /\ entryCache' = s.entryCache
         /\ mshr' = s.mshr
         /\ responses' = s.responses
         /\ eventBuffer' = s.eventBuffer
         /\ retryBuffer' = s.retryBuffer
         /\ cpuMsgQueue' = s.cpuMsgQueue
         /\ memMsgQueue' = s.memMsgQueue
         /\ addrsThisCycle' = s.addrsThisCycle
         /\ timestamp' = s.timestamp
         /\ clockOn' = s.clockOn
         /\ noncacheMemReqs' = s.noncacheMemReqs
         /\ dirMemAccesses' = s.dirMemAccesses
         /\ nextId' = s.nextId
         /\ fatal' = s.fatal
         /\ processed' = s.processed

(***************************************************************************)
(* The endpoints: two caches, a non-caching device, the memory             *)
(***************************************************************************)
InvCmds == {"Inv", "ForceInv", "FetchInv", "FetchInvX"}

Req(cmd, src, addr) ==
    [cmd |-> cmd, src |-> src, addr |-> addr, nc |-> FALSE, noresp |-> FALSE]
NcReq(cmd, src, addr) ==
    [cmd |-> cmd, src |-> src, addr |-> addr, nc |-> TRUE, noresp |-> FALSE]
\* a non-cacheable request that carries F_NORESPONSE
NcPosted(cmd, src, addr) ==
    [cmd |-> cmd, src |-> src, addr |-> addr, nc |-> TRUE, noresp |-> TRUE]

\* may the endpoint issue this request now
Legal(e) ==
    IF e.nc \/ e.src = Mem THEN TRUE
    ELSE IF e.src \in cfg.incoherentSrc THEN e.cmd \in {"GetS", "GetX", "GetSX", "Write"}
    ELSE LET c == cache[e.src][e.addr] IN
         /\ c.pend = ""
         /\ CASE e.cmd = "GetS" -> c.st = "I" /\ e.src \in Caches
              [] e.cmd \in {"GetX", "GetSX"} -> c.st \in {"I", "S"} /\ e.src \in Caches
              [] e.cmd = "Write" -> e.src \in Devices
              [] e.cmd = "PutS" -> c.st = "S"
              [] e.cmd = "PutE" -> c.st = "E"
              [] e.cmd = "PutM" -> c.st = "M"
              [] e.cmd = "PutX" -> c.st \in {"E", "M"}
              [] e.cmd \in {"FlushLine", "FlushLineInv"} -> e.src \in Caches
              [] OTHER -> FALSE

DataOf(st) == CASE st = "M" -> "w" [] st \in {"E", "S"} -> "mem" [] OTHER -> "none"

BuildEvent(e, id) ==
    LET base == [NewEvent(id, e.cmd, e.addr, e.src, Dir) EXCEPT
                     !.nc = e.nc, !.noresp = e.noresp, !.size = "line"]
        st == IF e.src \in CpuSide THEN cache[e.src][e.addr].st ELSE "I"
    IN CASE e.nc \/ e.src = Mem -> base
         [] e.cmd = "Write" -> [base EXCEPT !.payload = "w"]
         [] e.cmd \in {"PutE", "PutM", "PutX"} ->
                [base EXCEPT !.payload = DataOf(st), !.dirty = (st = "M")]
         [] e.cmd = "FlushLine" ->
                [base EXCEPT !.evict = (st \in {"E", "M"}), !.dirty = (st = "M"),
                             !.payload = IF st \in {"E", "M"} THEN DataOf(st) ELSE "none"]
         [] e.cmd = "FlushLineInv" ->
                [base EXCEPT !.evict = (st # "I"), !.dirty = (st = "M"),
                             !.payload = DataOf(st)]
         [] OTHER -> base

\* the requester's own line state once the request has left
AfterIssue(e) ==
    IF e.nc \/ e.src = Mem \/ e.src \in cfg.incoherentSrc THEN cache
    ELSE LET c == cache[e.src][e.addr]
             st == CASE e.cmd \in {"PutS", "PutE", "PutM", "FlushLineInv"} -> "I"
                     [] e.cmd = "PutX" -> "S"
                     [] e.cmd = "FlushLine" -> IF c.st \in {"E", "M"} THEN "S" ELSE c.st
                     [] OTHER -> c.st
         IN [cache EXCEPT ![e.src][e.addr] = [st |-> st, pend |-> e.cmd]]

\* one event handed to a link: a final response is taken by its endpoint at once,
\* anything that expects an answer waits in net
Absorb(e, ev) ==
    LET tag == <<ev.dst, ev.cmd, ev.addr>>
        done == [e EXCEPT !.delivered = @ (+) SetToBag({tag})]
    IN
    IF ev.cmd = "NACK" \/ (ev.cmd \in InvCmds /\ ev.dst \in CpuSide)
    THEN [e EXCEPT !.net = @ \cup {ev}]
    ELSE IF ev.dst = Mem
    THEN IF ev.noresp \/ ev.cmd \in ResponseCmds \/ (ev.cmd = "PutM" /\ ~cfg.waitWBAck)
         THEN done
         ELSE [e EXCEPT !.net = @ \cup {ev}]
    ELSE IF ev.nc \/ ev.dst \notin Caches THEN done
    ELSE LET c == e.cache[ev.dst][ev.addr]
             st == CASE ev.cmd = "GetSResp" -> "S"
                     [] ev.cmd = "GetXResp" -> IF c.pend = "GetS" THEN "E" ELSE "M"
                     [] OTHER -> c.st
         IN [done EXCEPT !.cache[ev.dst][ev.addr] = [st |-> st, pend |-> ""]]

RECURSIVE AbsorbAll(_, _)
AbsorbAll(e, evs) ==
    IF evs = <<>> THEN e ELSE AbsorbAll(Absorb(e, Head(evs)), Tail(evs))

\* the answers an endpoint may give to a message waiting in net:
\* ev is <<>> (no answer) or <<the answer>>, st the endpoint's line state afterwards
Answer(ev, st) == [ev |-> ev, st |-> st, nack |-> FALSE]
Replies(m) ==
    IF m.cmd = "NACK" THEN {Answer(<<m.nacked[1]>>, "")}
    ELSE IF m.dst \in Caches
    THEN LET st == cache[m.dst][m.addr].st
             data(cmd, dirty) == [makeResponse(m, cmd) EXCEPT !.payload = DataOf(st),
                                                             !.dirty = dirty, !.size = "line"]
         IN CASE st = "I" -> {Answer(<<>>, "I")}
              [] m.cmd \in {"Inv", "ForceInv"} -> {Answer(<<makeResponse(m, "AckInv")>>, "I")}
              [] m.cmd = "FetchInv" /\ st = "S" ->
                     {Answer(<<makeResponse(m, "AckInv")>>, "I"),
                      Answer(<<data("FetchResp", FALSE)>>, "I")}
              [] m.cmd = "FetchInv" -> {Answer(<<data("FetchResp", st = "M")>>, "I")}
              [] m.cmd = "FetchInvX" /\ st \in {"E", "M"} ->
                     {Answer(<<data("FetchXResp", st = "M")>>, "S")}
              [] OTHER -> {Answer(<<>>, st)}
    ELSE IF m.dst = Mem
    THEN LET r(cmd) == Answer(<<[makeResponse(m, cmd) EXCEPT !.payload = "mem",
                                                            !.size = m.size]>>, "")
         IN CASE m.cmd = "GetS" /\ ~m.global -> {r("GetSResp")}
              [] m.cmd = "GetS" /\ m.nc -> {r("GetSResp")}
              [] m.cmd = "GetS" -> {r("GetSResp"), r("GetXResp")}
              [] m.cmd \in {"GetX", "GetSX"} -> {r("GetXResp")}
              [] m.cmd = "Write" -> {r("WriteResp")}
              [] m.cmd \in {"FlushLine", "FlushLineInv"} -> {r("FlushLineResp")}
              [] m.cmd \in {"PutM", "PutE"} -> {r("AckPut")}
              [] OTHER -> {Answer(<<>>, "")}
    ELSE {Answer(<<>>, "")}

\* an endpoint that cannot take a request now answers NACK
NackReplies(m) ==
    IF m.cmd # "NACK" /\ nacks > 0 /\ (m.dst \in Caches \/ (m.dst = Mem /\ m.global /\ ~m.nc))
    THEN {[ev |-> <<makeNACKResponse(m)>>, st |-> "", nack |-> TRUE]}
    ELSE {}

(***************************************************************************)
(* Bounds and configurations                                               *)
(***************************************************************************)
MaxCycle == 8
LongRun == 18
MaxRequests == 2
MaxNacks == 1

\* the requests the endpoints may issue on one line
FreeOn(a) ==
    {Req(c, n, a) : c \in {"GetS", "GetX", "GetSX", "PutS", "PutE", "PutM", "PutX",
                           "FlushLine", "FlushLineInv"}, n \in Caches}
    \cup {Req("Write", d, a) : d \in Devices}
    \cup {Req(c, Mem, a) : c \in {"FetchInv", "ForceInv"}}
    \cup {NcReq("GetS", d, a) : d \in Devices}
    \cup {NcPosted("Write", d, a) : d \in Devices}

\* the constructor's defaults (entry_cache_size is large enough never to evict)
DefaultCfg ==
    [name |-> "free", protocol |-> "MESI", entryCacheMaxSize |-> Cardinality(Addrs),
     mshrMax |-> -1, accessLatency |-> 0, mshrLatency |-> 0, maxRequestsPerCycle |-> 0,
     waitWBAck |-> FALSE, incoherentSrc |-> {}, clockLinks |-> FALSE,
     free |-> FreeOn(1), maxCycle |-> MaxCycle]

\* scripted scenarios: a configuration and the requests the endpoints issue, in order
Scenario(name, c, scr) ==
    [cfg |-> [c EXCEPT !.name = name, !.free = {}, !.maxCycle = LongRun], script |-> scr]

\* a full MSHR: line 0 holds the slots while a request arrives for line 1, which is
\* idle (one slot in all) or has a request of its own in flight (two slots in all)
NackScenarios ==
    {Scenario("nackIdle", [DefaultCfg EXCEPT !.mshrMax = 1],
              pre \o <<Req("GetS", "B", 0), Req(c, "A", 1)>>) :
        pre \in {<<>>, <<Req("GetS", "A", 1)>>, <<Req("GetX", "A", 1)>>},
        c \in {"GetS", "GetX", "FlushLine", "FlushLineInv"}}
    \cup
    {Scenario("nackBusy", [DefaultCfg EXCEPT !.mshrMax = 2],
              <<Req(first, "A", 1), Req(second, "B", 1), Req("GetS", "B", 0),
                Req(c, "A", 1)>>) :
        first \in {"GetS", "GetX"}, second \in {"GetS", "GetX"},
        c \in {"FlushLine", "FlushLineInv"}}

Scenarios ==
    {Scenario("roundTripS", DefaultCfg, <<Req("GetS", "A", 1), Req("PutS", "A", 1)>>),
     Scenario("putXRace", DefaultCfg,
              <<Req("GetX", "A", 1), Req("GetX", "B", 1), Req("PutX", "A", 1)>>),
     Scenario("putMRace", DefaultCfg,
              <<Req("GetX", "A", 1), Req("GetX", "B", 1), Req("PutM", "A", 1)>>),
     Scenario("evict", [DefaultCfg EXCEPT !.entryCacheMaxSize = 1],
              <<Req("GetX", "A", 1), Req("PutX", "A", 1), Req("GetX", "A", 0),
                Req("PutX", "A", 0), Req("GetS", "B", 1), Req("PutS", "A", 1)>>),
     Scenario("evictFull", [DefaultCfg EXCEPT !.entryCacheMaxSize = 1, !.mshrMax = 1],
              <<Req("GetX", "A", 1), Req("PutX", "A", 1), Req("GetX", "A", 0),
                Req("PutX", "A", 0), Req("GetS", "B", 0), Req("GetS", "B", 1)>>),
     Scenario("roundTripM", DefaultCfg, <<Req("GetX", "A", 1), Req("PutM", "A", 1)>>),
     Scenario("fetchInvM", DefaultCfg, <<Req("GetX", "A", 1), Req("FetchInv", Mem, 1)>>),
     Scenario("staleI", DefaultCfg,
              <<Req("GetS", "A", 1), Req("ForceInv", Mem, 1), Req("ForceInv", Mem, 1)>>),
     Scenario("upgradeInv", DefaultCfg,
              <<Req("GetS", "A", 1), Req("GetS", "B", 1), Req("GetX", "A", 1)>>),
     Scenario("flushInvM", DefaultCfg,
              <<Req("GetX", "A", 1), Req("FlushLineInv", "B", 1)>>),
     Scenario("clockedLinks", [DefaultCfg EXCEPT !.clockLinks = TRUE],
              <<Req("GetS", "A", 1), Req("GetS", "B", 1)>>),
     Scenario("getSRace", DefaultCfg,
              <<Req("GetX", "A", 1), Req("FetchInv", Mem, 1), Req("GetS", "B", 1)>>)}

\* the scenarios of a one-entry entry cache, and one with three lines in use
EvictScenarios ==
    {sc \in Scenarios : sc.cfg.entryCacheMaxSize = 1} \cup
    {Scenario("evictBusy", [DefaultCfg EXCEPT !.entryCacheMaxSize = 1],
              <<Req("GetX", "A", 1), Req("PutX", "A", 1), Req("GetX", "B", 1),
                Req("GetX", "A", 0), Req("PutX", "A", 0), Req("GetX", "A", 2),
                Req("PutX", "A", 2)>>),
     Scenario("evictOrder", [DefaultCfg EXCEPT !.entryCacheMaxSize = 1, !.mshrMax = 1],
              <<Req("GetX", "A", 1), Req("PutX", "A", 1), Req("GetX", "A", 0),
                Req("PutX", "A", 0), Req("GetS", "B", 0), Req("GetS", "B", 1),
                Req("GetX", "A", 1)>>),
     Scenario("evictM", [DefaultCfg EXCEPT !.entryCacheMaxSize = 1],
              <<Req("GetX", "A", 1), Req("PutX", "A", 1), Req("GetX", "A", 1),
                Req("GetX", "B", 0), Req("PutX", "B", 0), Req("GetS", "B", 1)>>),
     Scenario("evictI", [DefaultCfg EXCEPT !.entryCacheMaxSize = 1],
              <<Req("GetX", "A", 1), Req("PutX", "A", 1), Req("ForceInv", Mem, 1),
                Req("GetX", "B", 0), Req("PutX", "B", 0), Req("GetS", "B", 1)>>)}

\* the scenarios of a paced controller: latencies on the outgoing queues and a
\* limit on the requests handled per cycle
PaceScenarios ==
    {Scenario("latency", [DefaultCfg EXCEPT !.accessLatency = 2, !.mshrLatency = 1],
              <<Req("GetS", "A", 1), NcReq("GetS", "D", 1), Req("PutS", "A", 1),
                Req("GetS", "B", 2)>>),
     Scenario("onePerCycle", [DefaultCfg EXCEPT !.maxRequestsPerCycle = 1],
              <<Req("GetS", "A", 1), Req("GetS", "B", 2), Req("GetX", "B", 1)>>),
     Scenario("twoPerCycle", [DefaultCfg EXCEPT !.maxRequestsPerCycle = 2],
              <<Req("GetS", "A", 1), Req("GetS", "B", 2), Req("GetX", "A", 0)>>),
     Scenario("unlimited", DefaultCfg,
              <<Req("GetS", "A", 1), Req("GetS", "B", 2), Req("GetX", "A", 0)>>)}

\* the scenarios of a device that does not cache: D is an incoherent source
IncoherentCfg == [DefaultCfg EXCEPT !.incoherentSrc = {"D"}]
IncScenarios ==
    {Scenario("incGetS", IncoherentCfg, <<Req("GetS", "D", 1), Req("GetS", "D", 1)>>),
     Scenario("mesiGetS", IncoherentCfg, <<Req("GetS", "D", 1), Req("GetS", "A", 1)>>),
     Scenario("msiGetS", [IncoherentCfg EXCEPT !.protocol = "MSI"],
              <<Req("GetS", "D", 1), Req("GetS", "A", 1)>>),
     Scenario("incGetX", IncoherentCfg,
              <<Req("GetS", "A", 1), Req("GetS", "B", 1), Req("GetX", "D", 1)>>),
     Scenario("incOwned", IncoherentCfg,
              <<Req("GetX", "A", 1), Req("GetS", "D", 1), Req("GetSX", "D", 1)>>),
     Scenario("incWrite", IncoherentCfg,
              <<Req("GetX", "A", 1), Req("Write", "D", 1), Req("GetX", "D", 1)>>),
     Scenario("incAlone", IncoherentCfg,
              <<Req("GetX", "D", 1), Req("GetSX", "D", 1), Req("Write", "D", 1)>>),
     Scenario("incShared", IncoherentCfg,
              <<Req("GetX", "A", 1), Req("PutX", "A", 1), Req("GetX", "D", 1),
                Req("GetS", "D", 1)>>)}

\* the scenarios that invalidate the sharers of a line in each of the shared
\* states
InvScenarios ==
    {Scenario("invSM", DefaultCfg,
              <<Req("GetX", "A", 1), Req("PutX", "A", 1), Req("GetX", "B", 1)>>),
     Scenario("invSD", DefaultCfg,
              <<Req("GetX", "A", 1), Req("PutX", "A", 1), Req("GetS", "B", 1),
                Req("ForceInv", Mem, 1)>>),
     Scenario("invSB", DefaultCfg,
              <<Req("GetS", "A", 1), Req("GetS", "B", 1), Req("FlushLine", "A", 1),
                Req("ForceInv", Mem, 1)>>),
     Scenario("invS", DefaultCfg,
              <<Req("GetS", "A", 1), Req("GetS", "B", 1), Req("GetX", "A", 1)>>),
     Scenario("invM", DefaultCfg,
              <<Req("GetX", "A", 1), Req("ForceInv", Mem, 1)>>),
     Scenario("invMX", DefaultCfg,
              <<Req("GetX", "A", 1), Req("GetS", "B", 1), Req("ForceInv", Mem, 1)>>),
     Scenario("invSMFetch", [DefaultCfg EXCEPT !.mshrMax = 1],
              <<Req("GetX", "A", 1), Req("PutX", "A", 1), Req("GetX", "B", 1),
                Req("FetchInv", Mem, 1)>>),
     Scenario("invSDFetch", [DefaultCfg EXCEPT !.mshrMax = 1],
              <<Req("GetX", "A", 1), Req("PutX", "A", 1), Req("GetS", "B", 1),
                Req("FetchInv", Mem, 1)>>)}

(***************************************************************************)
(* The node harness (PandosNode.cc)                                        *)
(***************************************************************************)
Cores == {0, 1}
StallTypes == {"eCoreStallMemoryRead", "eCoreStallMemoryWrite"}
Links == {"toRemoteNode", "toNodeSharedDRAM", "toCoreLocalSPM"}
MaxTasks == 1
MaxInFlight == 2

\* a simulation that holds no PandosNode component
NoNode == [id |-> 0, core |-> <<>>, sent |-> <<>>, stepped |-> {}, fatal |-> ""]

\* what one call of core_context_t::execute() may leave behind: the core's state,
\* the length of its task deque and, for a stall, the link its mem_req.addr
\* selects (remote PXN, local DRAM or local scratchpad)
Outcomes ==
    {o \in [type : {"eCoreReady", "eCoreIdle"} \cup StallTypes, tasks : 0..MaxTasks, link : Links \cup {"none"}] :
        (o.type \in StallTypes) <=> (o.link # "none")}
execute(core, out) ==
    [core EXCEPT !.type = out.type, !.tasks = out.tasks, !.link = out.link]

\* sendMemoryRequest(src_core): a read request for a read stall, a write request
\* otherwise, sent on the link of the request's address
sendMemoryRequest(n, src_core) ==
    IF src_core \notin DOMAIN n.core THEN [n EXCEPT !.fatal = "bad core id"]
    ELSE LET core_ctx == n.core[src_core]
             req == [kind |-> IF core_ctx.type = "eCoreStallMemoryRead" THEN "read"
                              ELSE "write",
                     src_core |-> src_core, src_pxn |-> n.id, link |-> core_ctx.link]
         IN [n EXCEPT !.sent = Append(@, req)]

\* receiveResponse(evt): the core of the response becomes ready and a read
\* response leaves its payload in the core's mem_req.data
receiveResponse(n, rsp) ==
    IF rsp.src_core \notin DOMAIN n.core THEN [n EXCEPT !.fatal = "bad core id"]
    ELSE IF rsp.src_pxn # n.id THEN [n EXCEPT !.fatal = "bad pxn id"]
    ELSE LET n1 == [n EXCEPT !.core[rsp.src_core].type = "eCoreReady"]
         IN IF rsp.kind = "read" THEN [n1 EXCEPT !.core[rsp.src_core].data = "read"]
            ELSE n1

\* clockTic(cycle): the loop over the cores, from core_id on; outs gives what
\* execute() does for each core
RECURSIVE clockTic(_, _, _)
clockTic(n, core_id, outs) ==
    IF core_id \notin DOMAIN n.core THEN n
    ELSE LET core == n.core[core_id] IN
         IF core.type = "eCoreReady" \/ core.tasks # 0
         THEN LET n1 == [n EXCEPT !.core[core_id] = execute(core, outs[core_id]),
                                  !.stepped = @ \cup {core_id}]
                  n2 == IF n1.core[core_id].type \in StallTypes
                        THEN sendMemoryRequest(n1, core_id) ELSE n1
              IN clockTic(n2, core_id + 1, outs)
         ELSE clockTic(n, core_id + 1, outs)

\* initCores(): every core is started (start leaves it ready or idle) and core 0
\* holds the main task
initCores(started) ==
    [c \in Cores |-> [type |-> started[c], tasks |-> IF c = 0 THEN 1 ELSE 0,
                      link |-> "none", data |-> "none"]]

(***************************************************************************)
(* Initial state: the controller as its constructor leaves it              *)
(***************************************************************************)
InitCtl ==
    /\ directory = [a \in Addrs |-> NoEntry]
    /\ entryCache = <<>>
    /\ mshr = [a \in Addrs |-> EmptyReg]
    /\ responses = [a \in Addrs |-> NoResp]
    /\ eventBuffer = <<>>
    /\ retryBuffer = <<>>
    /\ cpuMsgQueue = <<>>
    /\ memMsgQueue = <<>>
    /\ addrsThisCycle = {}
    /\ timestamp = 0
    /\ clockOn = TRUE
    /\ noncacheMemReqs = {}
    /\ dirMemAccesses = {}
    /\ nextId = 1
    /\ fatal = ""
    /\ processed = <<>>

InitEnv(c, scr, n, b) ==
    /\ cfg = c
    /\ cycle = 0
    /\ net = {}
    /\ cache = [n1 \in CpuSide |-> [a \in Addrs |-> [st |-> "I", pend |-> ""]]]
    /\ script = scr
    /\ nacks = n
    /\ budget = b
    /\ delivered = EmptyBag
    /\ node = NoNode

Init == InitCtl /\ InitEnv(DefaultCfg, <<>>, MaxNacks, MaxRequests)

(***************************************************************************)
(* Actions                                                                 *)
(***************************************************************************)
\* an endpoint hands a request to the directory's link: handlePacket
Issue(e) ==
    LET ev == BuildEvent(e, nextId)
        s == handlePacket([Pack EXCEPT !.nextId = @ + 1], ev, cycle)
    IN /\ Install(s)
       /\ cache' = AfterIssue(e)

Request ==
    /\ fatal = ""
    /\ budget > 0
    /\ \E e \in cfg.free :
          /\ Legal(e)
          /\ Issue(e)
    /\ budget' = budget - 1
    /\ UNCHANGED <<node, cfg, cycle, net, script, nacks, delivered>>

\* the next request of a scripted scenario
Scripted ==
    /\ fatal = ""
    /\ script # <<>>
    /\ Legal(Head(script))
    /\ Issue(Head(script))
    /\ script' = Tail(script)
    /\ UNCHANGED <<node, cfg, cycle, net, nacks, budget, delivered>>

\* an endpoint answers a message of the directory: handlePacket of the answer,
\* or nothing when the endpoint has nothing to say
Respond ==
    /\ fatal = ""
    /\ \E m \in net : \E r \in Replies(m) \cup NackReplies(m) :
          /\ net' = net \ {m}
          /\ IF r.ev = <<>> THEN UNCHANGED ctl
             ELSE Install(handlePacket(Pack, r.ev[1], cycle))
          /\ cache' = IF r.st = "" THEN cache
                      ELSE [cache EXCEPT ![m.dst][m.addr].st = r.st]
          /\ nacks' = IF r.nack THEN nacks - 1 ELSE nacks
    /\ UNCHANGED <<node, cfg, cycle, script, budget, delivered>>

\* what the links' clock() calls report together: a link that is not clocked
\* counts as idle, a clocked one may still be busy with what it was just handed
LinkClock(sent) == IF cfg.clockLinks /\ sent # <<>> THEN BOOLEAN ELSE {TRUE}

\* the clock handler, with the links taking what sendOutgoingEvents hands them
Clock ==
    /\ fatal = ""
    /\ clockOn
    /\ cycle < cfg.maxCycle
    /\ LET e == AbsorbAll([net |-> net, cache |-> cache, delivered |-> delivered],
                          Sent(Pack, cycle + 1))
       IN /\ \E linksIdle \in LinkClock(Sent(Pack, cycle + 1)) :
                Install(clock(Pack, cycle + 1, linksIdle))
          /\ net' = e.net
          /\ cache' = e.cache
          /\ delivered' = e.delivered
    /\ cycle' = cycle + 1
    /\ UNCHANGED <<node, cfg, script, nacks, budget>>

\* a cycle passes while the clock handler is unregistered
IdleCycle ==
    /\ fatal = ""
    /\ ~clockOn
    /\ cycle < cfg.maxCycle
    /\ cycle' = cycle + 1
    /\ UNCHANGED <<ctl, node, cfg, net, cache, script, nacks, budget, delivered>>

Next == Request \/ Respond \/ Clock \/ IdleCycle

Spec == Init /\ [][Next]_vars

\* the scripted scenarios: the endpoints issue a fixed sequence of requests
InitScript ==
    /\ InitCtl
    /\ \E sc \in Scenarios : InitEnv(sc.cfg, sc.script, MaxNacks, 0)

NextScript == Scripted \/ Respond \/ Clock

ScriptSpec == InitScript /\ [][NextScript]_vars

\* the scenarios of a full MSHR; the endpoints themselves accept every message
InitNack ==
    /\ InitCtl
    /\ \E sc \in NackScenarios : InitEnv(sc.cfg, sc.script, 0, 0)

NackSpec == InitNack /\ [][NextScript]_vars

InitEvict ==
    /\ InitCtl
    /\ \E sc \in EvictScenarios : InitEnv(sc.cfg, sc.script, MaxNacks, 0)

EvictSpec == InitEvict /\ [][NextScript]_vars

InitInv ==
    /\ InitCtl
    /\ \E sc \in InvScenarios : InitEnv(sc.cfg, sc.script, 0, 0)

InvSpec == InitInv /\ [][NextScript]_vars

InitInc ==
    /\ InitCtl
    /\ \E sc \in IncScenarios : InitEnv(sc.cfg, sc.script, 0, 0)

IncSpec == InitInc /\ [][NextScript]_vars

InitPace ==
    /\ InitCtl
    /\ \E sc \in PaceScenarios : InitEnv(sc.cfg, sc.script, 0, 0)

PaceSpec == InitPace /\ [][NextScript]_vars

\* the node harness on its own: the directory of the same simulation stays as
\* constructed
InitNode ==
    /\ InitCtl
    /\ cfg = [DefaultCfg EXCEPT !.name = "node"]
    /\ cycle = 0 /\ net = {} /\ script = <<>> /\ nacks = 0 /\ budget = 0
    /\ cache = [n1 \in CpuSide |-> [a \in Addrs |-> [st |-> "I", pend |-> ""]]]
    /\ delivered = EmptyBag
    /\ \E started \in [Cores -> {"eCoreReady", "eCoreIdle"}] :
          node = [id |-> 1, core |-> initCores(started), sent |-> <<>>,
                  stepped |-> {}, fatal |-> ""]

\* the simulator calls clockTic: execute() does for each core one of the things
\* it may do
ClockTic ==
    /\ node.fatal = ""
    /\ \E outs \in [Cores -> Outcomes] :
          LET n == clockTic([node EXCEPT !.stepped = {}], 0, outs)
          IN /\ \A c \in Cores \ n.stepped : outs[c] = CHOOSE o \in Outcomes : TRUE
             /\ Len(n.sent) <= MaxInFlight
             /\ node' = n
    /\ UNCHANGED <<ctl, env>>

\* a memory answers the oldest request in flight on one of the links: the
\* response carries the request's src_core and src_pxn
ReceiveResponse ==
    /\ node.fatal = ""
    /\ \E i \in 1..Len(node.sent) :
          /\ \A j \in 1..(i - 1) : node.sent[j].link # node.sent[i].link
          /\ node' = receiveResponse([node EXCEPT !.sent = RemoveAt(@, i), !.stepped = {}],
                                     node.sent[i])
    /\ UNCHANGED <<ctl, env>>

NextNode == ClockTic \/ ReceiveResponse

NodeSpec == InitNode /\ [][NextNode]_vars

\* the simulator calls the clock handler every cycle while it is registered: the
\* step that moves the cycle counter is a Clock step, enabled whenever Clock is
ClockDue ==
    /\ fatal = ""
    /\ clockOn
    /\ cycle < cfg.maxCycle
    /\ cycle' = cycle + 1

FairScriptSpec == ScriptSpec /\ WF_cycle(ClockDue)

(***************************************************************************)
(* Properties                                                              *)
(***************************************************************************)
\* what a lookup of the line yields: getDirEntry creates an absent entry in I
EntryView(d) ==
    IF d.present THEN [state |-> d.state, owner |-> d.owner, sharers |-> d.sharers]
    ELSE [state |-> "I", owner |-> "", sharers |-> {}]

SFamily == {"S", "S_D", "S_B", "S_Inv", "SD_Inv", "SM_Inv", "SB_Inv"}
InvStates == {"S_Inv", "SD_Inv", "SM_Inv", "SB_Inv", "M_Inv", "M_InvX"}

Quiet ==
    /\ eventBuffer = <<>> /\ retryBuffer = <<>>
    /\ cpuMsgQueue = <<>> /\ memMsgQueue = <<>>
    /\ net = {}
    /\ \A a \in Addrs : mshr[a].q = <<>>

\* C1: in every reachable state an entry that records an owner is in M, M_Inv or
\* M_InvX (a DirEntry has a single owner field, so there is at most one owner)
C1_OwnerOnlyInM ==
    \A a \in Addrs :
        directory[a].owner # "" => directory[a].state \in {"M", "M_Inv", "M_InvX"}

\* C2: in every reachable state an entry with sharers is in the S family
C2_SharersOnlyInS ==
    \A a \in Addrs : directory[a].sharers # {} => directory[a].state \in SFamily

\* C3: for every line acksNeeded equals the number of destinations recorded in
\* responses[addr]
C3_AcksMatchResponses ==
    \A a \in Addrs : mshr[a].acks = Cardinality(responses[a].m)

\* the invalidations and fetches the directory has issued and that are unanswered:
\* queued or on the link, and the destination still holds the line
Outstanding ==
    {m \in net \cup {cpuMsgQueue[i].ev : i \in 1..Len(cpuMsgQueue)} :
        /\ m.cmd \in InvCmds /\ m.src = Dir /\ m.dst \in Caches
        /\ cache[m.dst][m.addr].st # "I"}

\* C4: for every unanswered invalidation or fetch, responses[addr][dst] exists and
\* holds the id of the issued event
C4_ResponsesTrackIssued ==
    \A m \in Outstanding :
        /\ responses[m.addr].present
        /\ <<m.dst, m.id>> \in responses[m.addr].m

\* NACKs waiting in the event buffer
PendingNacks == {eventBuffer[i] : i \in {j \in 1..Len(eventBuffer) :
                                            eventBuffer[j].cmd = "NACK"}}
Queued(q, ev) == \E i \in 1..Len(q) : q[i].ev = ev

\* C5: a NACK of an Inv that is still outstanding (the line waits for acks and the
\* nacking cache is still a sharer) makes the directory send the same Inv again
C5_NackedInvResent ==
    \A n \in PendingNacks :
        LET inv == n.nacked[1] IN
        (/\ inv.cmd = "Inv"
         /\ directory[inv.addr].state \in InvStates
         /\ inv.dst \in directory[inv.addr].sharers
         /\ mshr[inv.addr].acks > 0)
        => Queued(handleNACK(Pack, n, FALSE).cpuMsgQueue, inv)

\* the NACKs of an invalidation or fetch that an endpoint could hand in now
NackOf(cmd, a, dst, id) == makeNACKResponse(NewEvent(id, cmd, a, Dir, dst))
InvNacks ==
    {NackOf(c, a, d, i) : c \in InvCmds, a \in Addrs, d \in CpuSide, i \in 1..nextId}
Stale(n) ==
    ~(/\ responses[n.addr].present
      /\ <<n.nacked[1].dst, n.nacked[1].id>> \in responses[n.addr].m)

\* C6: a NACK of an invalidation or fetch that matches no entry of the responses
\* tracker is dropped: the event is consumed, nothing is queued, no fatal error is
\* raised, and the line's state, owner and sharers, the MSHR and the tracker stay
\* as they are
C6_StaleNackDropped ==
    fatal = "" =>
    \A n \in InvNacks \cup PendingNacks :
        (n.nacked[1].cmd \in InvCmds /\ Stale(n)) =>
        LET r == handleNACK(Pack, n, FALSE) IN
        /\ r.ret /\ r.fatal = ""
        /\ r.cpuMsgQueue = cpuMsgQueue /\ r.memMsgQueue = memMsgQueue
        /\ r.retryBuffer = retryBuffer
        /\ \A a \in Addrs : EntryView(r.directory[a]) = EntryView(directory[a])
        /\ r.mshr = mshr
        /\ r.responses = responses

\* C6 witness: the clock handler has just consumed a NACK of the FetchInv sent to A
\* after A's racing PutM had already stood for the answer, and sent nothing again
C6_Witness ==
    /\ fatal = ""
    /\ cfg.name = "putMRace"
    /\ \E i \in 1..Len(processed) :
          /\ processed[i].cmd = "NACK" /\ processed[i].of = "FetchInv"
          /\ processed[i].src = "A"
    /\ ~responses[1].present
    /\ \A i \in 1..Len(cpuMsgQueue) : cpuMsgQueue[i].ev.cmd # "FetchInv"
    /\ directory[1].state \notin InvStates

AlwaysRetried == {"GetS", "GetX", "GetSX", "Write", "PutM", "PutE", "FlushLine",
                  "FlushLineInv"}

\* C7: a NACK of a read, write, put or flush that the directory sent is always
\* answered by sending the nacked event again, never by a fatal error
C7_NackAlwaysResent ==
    /\ fatal # "NACK in an unhandled state"
    /\ \A n \in PendingNacks :
          n.nacked[1].cmd \in AlwaysRetried =>
          LET r == handleNACK(Pack, n, FALSE) IN
          /\ r.fatal = ""
          /\ Queued(r.memMsgQueue, n.nacked[1]) \/ Queued(r.cpuMsgQueue, n.nacked[1])

\* C8: one clock call consumes at most one event per line, the directory-entry
\* read response included
C8_OneEventPerLine ==
    \A i, j \in 1..Len(processed) :
        processed[i].line = processed[j].line => i = j

\* the request needs an MSHR slot on every path: its entry is not cached
\* (retrieveDirEntry) or the line is in I with no buffered data
MSHRFull == cfg.mshrMax >= 0 /\ mshrSize(Pack) >= cfg.mshrMax
NeedsSlot(ev) ==
    /\ ev.global /\ ev.cmd \in {"GetS", "GetX", "GetSX", "Write", "FlushLine",
                                "FlushLineInv"}
    /\ \/ directory[ev.addr].present /\ ~directory[ev.addr].cached
       \/ EntryView(directory[ev.addr]).state = "I" /\ ~mshr[ev.addr].data.has

\* C9: a request that needs an MSHR slot while the MSHR is full is consumed and
\* answered with a NACK to its source
C9_RejectIsNacked ==
    \A i \in 1..Len(eventBuffer) :
        LET ev == eventBuffer[i]
            r == processPacket([Pack EXCEPT !.addrsThisCycle = {}], ev, FALSE)
        IN (NeedsSlot(ev) /\ MSHRFull) =>
           /\ r.ret
           /\ Queued(r.cpuMsgQueue, makeNACKResponse(ev))

DataTo(n, a) == {<<n, "GetSResp", a>>, <<n, "GetXResp", a>>}
Count(tags) ==
    LET RECURSIVE Sum(_)
        Sum(ts) == IF ts = {} THEN 0
                   ELSE LET x == CHOOSE y \in ts : TRUE
                        IN CopiesIn(x, delivered) + Sum(ts \ {x})
    IN Sum(tags)

\* C10: GetS from A on a line in I, GetSResp from memory, PutS from A: once all is
\* done the entry is in I with no sharers and no owner, and A has received one data
\* response and one AckPut
C10_GetSPutSRoundTrip ==
    (cfg.name = "roundTripS" /\ script = <<>> /\ Quiet /\ fatal = "") =>
    /\ EntryView(directory[1]) = [state |-> "I", owner |-> "", sharers |-> {}]
    /\ Count(DataTo("A", 1)) = 1
    /\ Count({<<"A", "AckPut", 1>>}) = 1

C10_Witness ==
    /\ cfg.name = "roundTripS" /\ script = <<>> /\ Quiet /\ fatal = ""
    /\ CopiesIn(<<"A", "GetSResp", 1>>, delivered) = 1
    /\ cache["A"][1] = [st |-> "I", pend |-> ""]

\* every dereference the C++ leaves undefined is modelled as the run ending; none of
\* them is reached by the specifications above
UndefinedNeverReached ==
    fatal \notin {"ub: responses.find(addr) == end()",
                  "ub: getFrontEvent of an address with no front event",
                  "ub: getFrontType of an empty MSHR",
                  "ub: dirMemAccesses.find(id) == end()"}

\* the clock handler has consumed, in its last call, the event cmd sent by src
Handled(cmd, src) ==
    \E i \in 1..Len(processed) : processed[i].cmd = cmd /\ processed[i].src = src

\* C11: GetX from A on a line in I, GetXResp from memory (entry M, owner A), PutM
\* from A with the dirty payload: when the PutM has been handled the entry is in I
\* with no owner and a PutM writeback carrying the payload is queued for memory; at
\* the end the entry is in I and memory has received exactly that one writeback
C11_GetXPutMRoundTrip ==
    (cfg.name = "roundTripM" /\ fatal = "") =>
    /\ Handled("PutM", "A") =>
          /\ EntryView(directory[1]) = [state |-> "I", owner |-> "", sharers |-> {}]
          /\ \E i \in 1..Len(memMsgQueue) :
                LET wb == memMsgQueue[i].ev IN
                /\ wb.cmd = "PutM" /\ wb.dst = Mem /\ wb.addr = 1
                /\ wb.payload = "w" /\ wb.dirty
    /\ (script = <<>> /\ Quiet) =>
          /\ EntryView(directory[1]) = [state |-> "I", owner |-> "", sharers |-> {}]
          /\ CopiesIn(<<Mem, "PutM", 1>>, delivered) = 1

C11_Witness ==
    /\ cfg.name = "roundTripM" /\ fatal = ""
    /\ Handled("PutM", "A")
    /\ \E i \in 1..Len(memMsgQueue) :
          memMsgQueue[i].ev.cmd = "PutM" /\ memMsgQueue[i].ev.payload = "w"
    /\ CopiesIn(<<"A", "GetXResp", 1>>, delivered) = 1

\* events of the given command waiting in the event buffer
Waiting(cmds) == {eventBuffer[i] : i \in {j \in 1..Len(eventBuffer) :
                                             eventBuffer[j].cmd \in cmds}}
\* the line is in M_Inv for a FetchInv of the memory side, waiting for its owner
FetchInvPending(a) ==
    /\ directory[a].state = "M_Inv"
    /\ hasFrontEvent(Pack, a)
    /\ getFrontEvent(Pack, a).cmd = "FetchInv" /\ getFrontEvent(Pack, a).src = Mem
\* the owner's FetchResp, then the replay of the FetchInv it completes
AfterFetchResp(a, resp) ==
    handleFetchInv(handleFetchResp(Pack, resp, FALSE), getFrontEvent(Pack, a), TRUE)
RepliesToMem(q, a) ==
    {i \in 1..Len(q) : q[i].ev.cmd \in {"AckInv", "FetchResp"}
                       /\ q[i].ev.dst = Mem /\ q[i].ev.addr = a}
\* a FetchInv of the memory side on a line in M moves it to M_Inv and forwards the
\* FetchInv to the owner
FetchInvForwarded ==
    \A ev \in Waiting({"FetchInv"}) :
        LET d == directory[ev.addr]
            r == handleFetchInv(Pack, ev, FALSE)
        IN (ev.src = Mem /\ d.present /\ d.cached /\ d.state = "M" /\ d.owner # "") =>
           /\ r.ret /\ r.fatal = ""
           /\ r.directory[ev.addr].state = "M_Inv"
           /\ \E i \in 1..Len(r.cpuMsgQueue) :
                 /\ r.cpuMsgQueue[i].ev.cmd = "FetchInv"
                 /\ r.cpuMsgQueue[i].ev.dst = d.owner
                 /\ r.cpuMsgQueue[i].ev.addr = ev.addr
\* the owner's answers to the forwarded FetchInv that have arrived
OwnerAnswers(a) ==
    {ev \in Waiting({"FetchResp", "AckInv"}) :
        ev.addr = a /\ ev.src = directory[a].owner /\ FetchInvPending(a)}
DirtyFetchResps(a) == {ev \in OwnerAnswers(a) : ev.cmd = "FetchResp" /\ ev.dirty}
FetchInvAnswered ==
    CopiesIn(<<Mem, "AckInv", 1>>, delivered) + CopiesIn(<<Mem, "FetchResp", 1>>, delivered) > 0

DirtyDataWrittenBack ==
    \A a \in Addrs : \A resp \in DirtyFetchResps(a) :
        LET r == AfterFetchResp(a, resp)
            q == r.memMsgQueue
        IN /\ r.fatal = ""
           /\ RepliesToMem(q, a) # {}
           /\ \A j \in RepliesToMem(q, a) :
                 /\ q[j].ev.cmd = "AckInv"
                 /\ \E i \in 1..(j - 1) :
                       /\ q[i].ev.cmd = "PutM" /\ q[i].ev.dst = Mem /\ q[i].ev.addr = a
                       /\ q[i].ev.payload = resp.payload /\ q[i].ev.dirty

WaitingRequests == {ev \in Waiting(RequestCmds) : ev.src \in CpuSide /\ ev.global}
\* the controller with the MSHR slots of the other lines free
Room(s, a) == [s EXCEPT !.mshr = [b \in Addrs |-> IF b = a THEN @[b]
                                                 ELSE [@[b] EXCEPT !.q = <<>>]]]
\* the NACKs of the request ev in an outgoing queue, and the queue without them
IsNackOf(m, ev) ==
    m.cmd = "NACK" /\ m.dst = ev.src /\ m.nacked[1].id = ev.id /\ m.nacked[1].cmd = ev.cmd
NacksFor(q, ev) == {q[i].ev : i \in {j \in 1..Len(q) : IsNackOf(q[j].ev, ev)}}
WithoutNacks(q, ev) == SelectSeq(q, LAMBDA m : ~IsNackOf(m.ev, ev))
\* what the directory keeps and sends for the lines
Outcome(s, ev) ==
    [directory |-> s.directory, entryCache |-> s.entryCache, mshr |-> s.mshr,
     responses |-> s.responses, retryBuffer |-> s.retryBuffer,
     cpuMsgQueue |-> WithoutNacks(s.cpuMsgQueue, ev), memMsgQueue |-> s.memMsgQueue,
     nextId |-> s.nextId, fatal |-> s.fatal]
\* the request ev meets a full MSHR now and is answered with a NACK
Rejected(ev) ==
    /\ MSHRFull
    /\ cfg.mshrMax > mshrSize(Room(Pack, ev.addr))
    /\ NacksFor(cpuMsgQueue, ev) = {}
    /\ NacksFor(Dispatch(Pack, ev, FALSE).cpuMsgQueue, ev) # {}
\* the request is rejected, the sender hands the nacked event in again and the
\* directory, with a slot free by then, handles it
NackedThenResubmitted(ev) ==
    LET rN == Dispatch(Pack, ev, FALSE)
        nack == CHOOSE n \in NacksFor(rN.cpuMsgQueue, ev) : TRUE
    IN Dispatch(Room(rN, ev.addr), nack.nacked[1], FALSE)
\* the request finds a slot free the first time
AcceptedFirstTime(ev) == Dispatch(Room(Pack, ev.addr), ev, FALSE)

\* C13: a request that the directory rejects with a NACK and that its sender then
\* submits again leaves the directory as the same request accepted the first time
\* does: the same entries (state, owner, sharers), the same MSHR and tracker, and
\* the same messages sent, so that both runs end with the same final entry
C13_NackedRetryConverges ==
    \A ev \in WaitingRequests :
        Rejected(ev) =>
        Outcome(NackedThenResubmitted(ev), ev) = Outcome(AcceptedFirstTime(ev), ev)

\* C13 witness: a FlushLineInv that carries an eviction meets a full MSHR while its
\* line waits for acknowledgements
C13_Witness ==
    \E ev \in WaitingRequests :
        /\ Rejected(ev)
        /\ ev.cmd = "FlushLineInv" /\ ev.evict
        /\ directory[ev.addr].state \in InvStates

\* the entry of line a is evicted between s and r: still in the directory, no
\* longer cached
Evicted(s, r, a) ==
    /\ s.directory[a].present /\ s.directory[a].cached
    /\ r.directory[a].present /\ ~r.directory[a].cached
\* the controller after the clock handler has handled one waiting event
AfterEvent(ev, replay) == processPacket([Pack EXCEPT !.addrsThisCycle = {}], ev, replay)
InBuffer(q) == {q[i] : i \in 1..Len(q)}

\* C14: updateCache never evicts an entry whose line has an MSHR entry, whichever
\* entry it is called for and whichever waiting event makes a handler call it
C14_EvictsOnlyIdle ==
    /\ \A t \in Addrs :
          (directory[t].present /\ directory[t].cached) =>
          \A a \in Addrs : Evicted(Pack, updateCache(Pack, t), a) => ~exists(Pack, a)
    /\ \A ev \in InBuffer(eventBuffer) : \A a \in Addrs :
          Evicted(Pack, AfterEvent(ev, FALSE), a) =>
              ~exists(Pack, a) /\ ~exists(AfterEvent(ev, FALSE), a)
    /\ \A ev \in InBuffer(retryBuffer) : \A a \in Addrs :
          Evicted(Pack, AfterEvent(ev, TRUE), a) =>
              ~exists(Pack, a) /\ ~exists(AfterEvent(ev, TRUE), a)

\* C14 witness: a waiting event makes its handler update the entry cache, which is
\* then over its capacity, and the entry at the LRU end, whose line has an MSHR
\* entry, stays cached
C14_Witness ==
    /\ fatal = ""
    /\ \E ev \in InBuffer(eventBuffer) :
          LET r == AfterEvent(ev, FALSE)
              back == r.entryCache[Len(r.entryCache)]
          IN /\ r.fatal = "" /\ r.entryCache # entryCache
             /\ Len(r.entryCache) > cfg.entryCacheMaxSize
             /\ exists(r, back) /\ r.directory[back].cached

\* C15: when a handler has updated the entry cache (entryCacheMaxSize > 0), the
\* cache is within its capacity or every entry behind the one just touched has MSHR
\* activity: idle entries are evicted even when a busy entry is nearer the LRU end
C15_EvictionSkipsBusy ==
    \A ev \in InBuffer(eventBuffer) :
        LET r == AfterEvent(ev, FALSE) IN
        (cfg.entryCacheMaxSize > 0 /\ r.fatal = "" /\ r.entryCache # entryCache) =>
        \/ Len(r.entryCache) <= cfg.entryCacheMaxSize
        \/ \A i \in 2..Len(r.entryCache) : exists(r, r.entryCache[i])

\* the entry of line a is in I and its line has no MSHR entry
IdleInI(s, a) ==
    s.directory[a].present /\ s.directory[a].state = "I" /\ ~exists(s, a)
\* handling the waiting event ev completes it: the handler has consumed it and
\* left no MSHR entry for its line
Completes(ev, r) ==
    r.fatal = "" /\ r.ret /\ ~exists(r, ev.addr)
Gone(s, a) == ~s.directory[a].present /\ a \notin InBuffer(s.entryCache)

\* C16: an entry in I with no MSHR activity is removed from the entry cache and
\* deleted from the directory no later than the next completed request that
\* touches it: when the handling of a waiting request for its line completes
\* that request, the entry is gone
C16_IdleInvalidRemoved ==
    \A ev \in InBuffer(eventBuffer) :
        (fatal = "" /\ IdleInI(Pack, ev.addr) /\ Completes(ev, AfterEvent(ev, FALSE)))
        => Gone(AfterEvent(ev, FALSE), ev.addr)

FetchStates == {"I_d", "S_d", "M_d"}
Uncached(s, a) == s.directory[a].present /\ ~s.directory[a].cached
\* handling the waiting event ev does nothing but what retrieveDirEntry does;
\* handleAckPut and handleNACK have no state table and leave the entry alone
OnlyRetrieves(ev, replay) ==
    IF ev.cmd \in {"AckPut", "NACK"}
    THEN Dispatch(Pack, ev, replay).directory = directory
    ELSE Dispatch(Pack, ev, replay) = retrieveDirEntry(Pack, ev.addr, ev, replay)

\* C17: an entry with cached == false whose line has an MSHR entry is in I_d, S_d
\* or M_d, and no handler runs a state-table arm on an uncached entry: a waiting
\* event for the line of an uncached entry is only given to retrieveDirEntry
C17_UncachedOnlyFetches ==
    fatal = "" =>
    /\ \A a \in Addrs : (Uncached(Pack, a) /\ exists(Pack, a)) =>
           directory[a].state \in FetchStates
    /\ \A ev \in InBuffer(eventBuffer) :
           (ev.global /\ Uncached(Pack, ev.addr)) => OnlyRetrieves(ev, FALSE)
    /\ \A ev \in InBuffer(retryBuffer) :
           (ev.global /\ Uncached(Pack, ev.addr)) => OnlyRetrieves(ev, TRUE)
C17_Witness ==
    /\ fatal = ""
    /\ \E a \in Addrs : /\ Uncached(Pack, a) /\ exists(Pack, a)
                        /\ directory[a].state \in FetchStates

\* q with the message at position i taken out
Without(q, i) == SubSeq(q, 1, i - 1) \o SubSeq(q, i + 1, Len(q))
\* r's queue is q with exactly one more message, and that message satisfies P
OneMore(q, rq, P(_)) ==
    \E i \in 1..Len(rq) : Without(rq, i) = q /\ P(rq[i].ev)
\* the line is in I at the directory (no entry yet, or a cached entry in I)
\* with no data buffered in the MSHR
InvalidNoData(a) ==
    /\ ~directory[a].present \/ (directory[a].state = "I" /\ directory[a].cached)
    /\ ~hasData(Pack, a)

\* handling the waiting GetS moves the entry to IS and queues one line-sized
\* read for memory and nothing else
GetSReadsMemory(ev) ==
    LET r == AfterEvent(ev, FALSE) IN
    /\ r.fatal = ""
    /\ r.directory[ev.addr].state = "IS"
    /\ r.cpuMsgQueue = cpuMsgQueue
    /\ OneMore(memMsgQueue, r.memMsgQueue,
               LAMBDA m : /\ m.cmd = "GetS" /\ m.addr = ev.addr /\ m.dst = Mem
                          /\ m.src = Dir /\ m.size = "line" /\ m.global)
\* a GetS of a coherent cache waiting for a line in I with no buffered data
FreshGetS == {ev \in Waiting({"GetS"}) :
                 ev.global /\ ev.src \in Caches \ cfg.incoherentSrc /\ InvalidNoData(ev.addr)}
\* a GetXResp of memory waiting for a line in IS whose request is a coherent GetS
UpgradingGetXResp ==
    {ev \in Waiting({"GetXResp"}) :
        /\ directory[ev.addr].state = "IS" /\ hasFrontEvent(Pack, ev.addr)
        /\ getFrontEvent(Pack, ev.addr).cmd = "GetS"
        /\ getFrontEvent(Pack, ev.addr).src \in Caches \ cfg.incoherentSrc}
\* handling the waiting GetXResp makes the requester the owner in M and sends it
\* a GetXResp with the payload memory returned
GetXRespUpgrades(ev) ==
    LET r == AfterEvent(ev, FALSE)
        A == getFrontEvent(Pack, ev.addr).src
    IN
    /\ r.fatal = ""
    /\ EntryView(r.directory[ev.addr]) = [state |-> "M", owner |-> A, sharers |-> {}]
    /\ r.memMsgQueue = memMsgQueue
    /\ OneMore(cpuMsgQueue, r.cpuMsgQueue,
               LAMBDA m : /\ m.cmd = "GetXResp" /\ m.addr = ev.addr /\ m.dst = A
                          /\ m.payload = ev.payload /\ ev.payload = "mem")

\* C18 as stated: under MESI every GetS of a coherent cache A for a line in I
\* with no buffered data moves the entry to IS and issues one line-sized read to
\* memory; when memory answers GetXResp with payload P the entry becomes M with
\* owner A and a GetXResp with payload P is sent to A
C18_EveryGetSInIReads ==
    (fatal = "" /\ cfg.protocol = "MESI") =>
    /\ \A ev \in FreshGetS : GetSReadsMemory(ev)
    /\ \A ev \in UpgradingGetXResp : GetXRespUpgrades(ev)

\* C18: under MESI a GetS of a coherent cache A for a line in I with no buffered
\* data, no other request of the line in the MSHR and room in the MSHR moves the
\* entry to IS and issues one line-sized read to memory; when memory answers
\* GetXResp with payload P the entry becomes M with owner A and a GetXResp with
\* payload P is sent to A
C18_MesiGetSUpgrade ==
    (fatal = "" /\ cfg.protocol = "MESI") =>
    /\ \A ev \in FreshGetS :
          (~exists(Pack, ev.addr) /\ ~MSHRFull) => GetSReadsMemory(ev)
    /\ \A ev \in UpgradingGetXResp : GetXRespUpgrades(ev)

\* the GetXResp of memory for A's GetS has been handled: A owns the line in M and
\* the GetXResp for A is queued
C18_Witness ==
    /\ fatal = "" /\ cfg.protocol = "MESI"
    /\ Handled("GetXResp", Mem)
    /\ \E a \in Addrs :
          /\ EntryView(directory[a]) = [state |-> "M", owner |-> "A", sharers |-> {}]
          /\ \E i \in 1..Len(cpuMsgQueue) :
                LET m == cpuMsgQueue[i].ev IN
                m.cmd = "GetXResp" /\ m.dst = "A" /\ m.addr = a /\ m.payload = "mem"
          /\ cache["A"][a].pend = "GetS"

\* a GetX waiting whose sender shares the line, in S, with exactly one other cache
UpgradeRequests ==
    {ev \in Waiting({"GetX"}) :
        /\ ev.global /\ directory[ev.addr].present /\ directory[ev.addr].cached
        /\ directory[ev.addr].state = "S"
        /\ ev.src \in directory[ev.addr].sharers
        /\ Cardinality(directory[ev.addr].sharers) = 2}
\* handling the GetX moves the entry to S_Inv, sends one Inv, to the other sharer,
\* and leaves one acknowledgement to wait for
InvalidatesOther(ev) ==
    LET r == AfterEvent(ev, FALSE)
        B == CHOOSE n \in directory[ev.addr].sharers : n # ev.src
    IN
    /\ r.fatal = ""
    /\ r.directory[ev.addr].state = "S_Inv"
    /\ r.directory[ev.addr].sharers = directory[ev.addr].sharers
    /\ getAcksNeeded(r, ev.addr) = 1
    /\ r.memMsgQueue = memMsgQueue
    /\ OneMore(cpuMsgQueue, r.cpuMsgQueue,
               LAMBDA m : m.cmd = "Inv" /\ m.addr = ev.addr /\ m.dst = B)
\* the upgrade of A waits in S_Inv and the AckInv of B has arrived
AckInvArrived ==
    /\ cfg.name = "upgradeInv" /\ fatal = ""
    /\ directory[1].state = "S_Inv" /\ directory[1].sharers = {"A", "B"}
    /\ hasFrontEvent(Pack, 1)
    /\ getFrontEvent(Pack, 1).cmd = "GetX" /\ getFrontEvent(Pack, 1).src = "A"
    /\ \E ev \in Waiting({"AckInv"}) : ev.src = "B" /\ ev.addr = 1
\* A owns the line in M, nobody shares it, and A's response has been sent
UpgradeDone ==
    /\ EntryView(directory[1]) = [state |-> "M", owner |-> "A", sharers |-> {}]
    /\ ~exists(Pack, 1)
    /\ \/ CopiesIn(<<"A", "GetXResp", 1>>, delivered) > 0
       \/ \E i \in 1..Len(cpuMsgQueue) :
             cpuMsgQueue[i].ev.cmd = "GetXResp" /\ cpuMsgQueue[i].ev.dst = "A"

\* C19: with the line in S and sharers {A, B}, a GetX from A moves the entry to
\* S_Inv, sends Inv to B only and sets acksNeeded to 1; once the AckInv of B has
\* arrived the entry comes to M with owner A and no sharers, and a response is
\* sent to A
C19_UpgradeWithInvalidation ==
    /\ [](fatal = "" => \A ev \in UpgradeRequests : InvalidatesOther(ev))
    /\ (AckInvArrived ~> UpgradeDone)

C19_Witness ==
    /\ cfg.name = "upgradeInv" /\ fatal = ""
    /\ UpgradeDone
    /\ Handled("GetX", "A")
    /\ cache["B"][1].st = "I"
    /\ \A m \in net : m.cmd # "Inv"

\* a FlushLineInv without evicted data, waiting, of a cache that does not own the
\* line, for a line in M whose owner is another cache
FlushesOfOwned ==
    {ev \in Waiting({"FlushLineInv"}) :
        /\ ev.global /\ ~ev.evict
        /\ directory[ev.addr].present /\ directory[ev.addr].cached
        /\ directory[ev.addr].state = "M"
        /\ directory[ev.addr].owner \notin {"", ev.src}}
\* handling the FlushLineInv moves the entry to M_Inv and sends FetchInv to the owner
FetchesFromOwner(ev) ==
    LET r == AfterEvent(ev, FALSE)
        A == directory[ev.addr].owner
    IN
    /\ r.fatal = ""
    /\ EntryView(r.directory[ev.addr]) = [state |-> "M_Inv", owner |-> A, sharers |-> {}]
    /\ r.memMsgQueue = memMsgQueue
    /\ OneMore(cpuMsgQueue, r.cpuMsgQueue,
               LAMBDA m : m.cmd = "FetchInv" /\ m.addr = ev.addr /\ m.dst = A)
\* the owner's FetchResp has arrived for a line in M_Inv whose request is a FlushLineInv
FlushFetchResps ==
    {ev \in Waiting({"FetchResp"}) :
        /\ directory[ev.addr].state = "M_Inv" /\ ev.src = directory[ev.addr].owner
        /\ hasFrontEvent(Pack, ev.addr)
        /\ getFrontEvent(Pack, ev.addr).cmd = "FlushLineInv"}
\* handling the FetchResp brings the entry to I, writes dirty data back to
\* memory in a PutM and puts the FlushLineInv in the retry buffer
WritesBackAndRetries(ev) ==
    LET r == AfterEvent(ev, FALSE) IN
    /\ r.fatal = ""
    /\ r.directory[ev.addr].state = "I"
    /\ r.cpuMsgQueue = cpuMsgQueue
    /\ IF ev.dirty
       THEN OneMore(memMsgQueue, r.memMsgQueue,
                    LAMBDA m : /\ m.cmd = "PutM" /\ m.addr = ev.addr /\ m.dst = Mem
                               /\ m.payload = ev.payload /\ m.dirty)
       ELSE r.memMsgQueue = memMsgQueue
    /\ \E x \in InBuffer(r.retryBuffer) : x.cmd = "FlushLineInv" /\ x.addr = ev.addr
\* the flush of line a is on its way to memory or waits there for its answer
FlushOutstanding(a) ==
    /\ hasFrontEvent(Pack, a) /\ getFrontEvent(Pack, a).cmd = "FlushLineInv"
    /\ \/ \E i \in 1..Len(memMsgQueue) :
             memMsgQueue[i].ev.cmd = "FlushLineInv" /\ memMsgQueue[i].ev.addr = a
       \/ \E m \in net : m.cmd = "FlushLineInv" /\ m.addr = a /\ m.dst = Mem
\* the FlushLineResp of memory has arrived for B's FlushLineInv
FlushRespArrived ==
    /\ cfg.name = "flushInvM" /\ fatal = ""
    /\ hasFrontEvent(Pack, 1) /\ getFrontEvent(Pack, 1).cmd = "FlushLineInv"
    /\ getFrontEvent(Pack, 1).src = "B"
    /\ \E ev \in Waiting({"FlushLineResp"}) : ev.addr = 1
FlushAnswered ==
    /\ directory[1].present /\ directory[1].state = "I" /\ ~exists(Pack, 1)
    /\ \/ CopiesIn(<<"B", "FlushLineResp", 1>>, delivered) > 0
       \/ \E i \in 1..Len(cpuMsgQueue) :
             cpuMsgQueue[i].ev.cmd = "FlushLineResp" /\ cpuMsgQueue[i].ev.dst = "B"

\* C20 as stated: with the line in M owned by A, a FlushLineInv from B without
\* evicted data moves the entry to M_Inv and sends FetchInv to A; A's FetchResp
\* brings the entry to I and the dirty data is written back; the entry is in I_B
\* while the flush is outstanding at memory
C20_FlushHoldsLineInIB ==
    fatal = "" =>
    /\ \A ev \in FlushesOfOwned :
          (~exists(Pack, ev.addr) /\ ~MSHRFull) => FetchesFromOwner(ev)
    /\ \A ev \in FlushFetchResps : WritesBackAndRetries(ev)
    /\ \A a \in Addrs : FlushOutstanding(a) => directory[a].state = "I_B"

\* C20: with the line in M owned by A, a FlushLineInv from B without evicted data
\* (no other request of the line in the MSHR, room in the MSHR) moves the entry
\* to M_Inv and sends FetchInv to A; A's FetchResp brings the entry to I and the
\* dirty data is written back; the replayed FlushLineInv sends the flush to
\* memory and the entry stays in I while the flush is outstanding; when the
\* FlushLineResp has arrived B gets a FlushLineResp and the entry ends in I
C20_FlushLineInvOnOwned ==
    /\ [](fatal = "" =>
          /\ \A ev \in FlushesOfOwned :
                (~exists(Pack, ev.addr) /\ ~MSHRFull) => FetchesFromOwner(ev)
          /\ \A ev \in FlushFetchResps : WritesBackAndRetries(ev))
    /\ [](cfg.name = "flushInvM" /\ fatal = "" /\ FlushOutstanding(1)
          => directory[1].state = "I")
    /\ ((cfg.name = "flushInvM" /\ fatal = "" /\ FlushFetchResps # {})
           ~> (fatal # "" \/ FlushOutstanding(1)))
    /\ (FlushRespArrived ~> FlushAnswered)

C20_Witness ==
    /\ cfg.name = "flushInvM" /\ fatal = ""
    /\ FlushAnswered
    /\ Handled("FlushLineResp", Mem)
    /\ cache["A"][1].st = "I"
    /\ CopiesIn(<<Mem, "PutM", 1>>, delivered) = 1

\* a GetS of a cache waiting for a line that is in M_Inv for another cache's copy
RacingGetS ==
    {ev \in Waiting({"GetS"}) :
        /\ ev.global /\ ev.src \in Caches
        /\ directory[ev.addr].present /\ directory[ev.addr].cached
        /\ directory[ev.addr].state = "M_Inv"
        /\ directory[ev.addr].owner \notin {"", ev.src}}
\* handling the GetS parks it at the tail of the line's MSHR queue and changes
\* nothing else
ParkedAtTail(ev) ==
    LET r == AfterEvent(ev, FALSE)
        q == r.mshr[ev.addr].q
    IN
    /\ r.fatal = "" /\ r.ret
    /\ r.directory = directory
    /\ Len(q) = Len(mshr[ev.addr].q) + 1
    /\ SubSeq(q, 1, Len(q) - 1) = mshr[ev.addr].q
    /\ q[Len(q)].type = "Event" /\ q[Len(q)].ev = <<ev>>
    /\ r.cpuMsgQueue = cpuMsgQueue /\ r.memMsgQueue = memMsgQueue
    /\ r.retryBuffer = retryBuffer
\* the owner's dirty FetchResp has arrived for a line in M_Inv
DirtyFetchRespsInMInv ==
    {ev \in Waiting({"FetchResp"}) :
        /\ directory[ev.addr].state = "M_Inv" /\ ev.src = directory[ev.addr].owner
        /\ ev.dirty /\ hasFrontEvent(Pack, ev.addr)}
\* handling it brings the entry to I and queues a PutM with the payload for memory
InvalidatesAndWritesBack(ev) ==
    LET r == AfterEvent(ev, FALSE) IN
    /\ r.fatal = ""
    /\ r.directory[ev.addr].state = "I"
    /\ OneMore(memMsgQueue, r.memMsgQueue,
               LAMBDA m : /\ m.cmd = "PutM" /\ m.addr = ev.addr /\ m.dst = Mem
                          /\ m.payload = ev.payload /\ m.dirty)
\* B's GetS is parked behind the FetchInv of memory and A's dirty FetchResp has arrived
GetSBehindFetch ==
    /\ cfg.name = "getSRace" /\ fatal = ""
    /\ \E ev \in DirtyFetchRespsInMInv : ev.addr = 1 /\ ev.src = "A"
    /\ \E i \in 2..Len(mshr[1].q) :
          /\ mshr[1].q[i].type = "Event"
          /\ mshr[1].q[i].ev[1].cmd = "GetS" /\ mshr[1].q[i].ev[1].src = "B"
\* B's GetS has been retried: it heads the MSHR queue of the line, which waits
\* in IS for the data read from memory
GetSReadIssued ==
    /\ directory[1].state = "IS" /\ hasFrontEvent(Pack, 1)
    /\ getFrontEvent(Pack, 1).cmd = "GetS" /\ getFrontEvent(Pack, 1).src = "B"
    /\ \/ \E i \in 1..Len(memMsgQueue) :
             memMsgQueue[i].ev.cmd = "GetS" /\ memMsgQueue[i].ev.addr = 1
       \/ \E m \in net : m.cmd = "GetS" /\ m.addr = 1 /\ m.dst = Mem
\* memory's exclusive data response to that read has arrived
GetSDataArrived ==
    /\ cfg.name = "getSRace" /\ fatal = "" /\ directory[1].state = "IS"
    /\ hasFrontEvent(Pack, 1) /\ getFrontEvent(Pack, 1).src = "B"
    /\ \E ev \in Waiting({"GetXResp"}) : ev.addr = 1 /\ ev.src = Mem
\* B's GetS has been served: B owns the line in M and its data response is sent
GetSServed ==
    /\ EntryView(directory[1]) = [state |-> "M", owner |-> "B", sharers |-> {}]
    /\ \/ CopiesIn(<<"B", "GetXResp", 1>>, delivered) > 0
       \/ \E i \in 1..Len(cpuMsgQueue) :
             /\ cpuMsgQueue[i].ev.cmd = "GetXResp" /\ cpuMsgQueue[i].ev.dst = "B"
             /\ cpuMsgQueue[i].ev.payload # "none"

\* C21: while a line is in M_Inv (owner A, FetchInv in flight) a GetS of another
\* cache is parked at the tail of the line's MSHR queue and the entry does not
\* change; A's dirty FetchResp brings the entry to I and its payload is written
\* back to memory; the parked GetS is then retried and served: under MESI the
\* line ends in M owned by the requester and a data response is sent to it
C21_GetSRacesWithMInv ==
    /\ [](fatal = "" =>
          /\ \A ev \in RacingGetS : ParkedAtTail(ev)
          /\ \A ev \in DirtyFetchRespsInMInv : InvalidatesAndWritesBack(ev))
    /\ (GetSBehindFetch ~> (fatal # "" \/ GetSReadIssued))
    /\ (GetSDataArrived ~> (fatal # "" \/ GetSServed))
\* the race has run to its end: A's copy is gone, its payload is in memory and
\* B holds the line
C21_Witness ==
    /\ cfg.name = "getSRace" /\ fatal = "" /\ GetSServed
    /\ CopiesIn(<<Mem, "PutM", 1>>, delivered) > 0
    /\ cache["A"][1].st = "I"
    /\ Quiet

\* the non-cacheable requests an endpoint may hand to the directory now
NoncacheableRequests == {e \in cfg.free : e.nc /\ Legal(e)}
\* handlePacket of the request: what it leaves in noncacheMemReqs and memMsgQueue
AfterPacket(e) == handlePacket(Pack, BuildEvent(e, nextId), cycle)
ForwardedAsOwn(e) ==
    OneMore(memMsgQueue, AfterPacket(e).memMsgQueue,
            LAMBDA m : /\ m.id = nextId /\ m.cmd = e.cmd /\ m.addr = e.addr
                       /\ m.src = Dir /\ m.nc)
Recorded(e) ==
    AfterPacket(e).noncacheMemReqs = noncacheMemReqs \cup {<<nextId, e.src>>}
\* the non-cacheable responses waiting on the memory link, and the directory
\* after handlePacket of one of them
NoncacheableAnswers ==
    {x \in UNION {{[m |-> m, ev |-> r.ev[1]] : r \in {y \in Replies(m) : y.ev # <<>>}} :
                      m \in {n \in net : n.dst = Mem /\ n.nc}} : TRUE}
ReturnedToSource(x) ==
    LET r == handlePacket(Pack, x.ev, cycle)
        from == {p \in noncacheMemReqs : p[1] = x.ev.id}
    IN
    /\ r.fatal = "" /\ from # {}
    /\ r.noncacheMemReqs = noncacheMemReqs \ from
    /\ \A p \in from :
          OneMore(cpuMsgQueue, r.cpuMsgQueue,
                  LAMBDA m : /\ m.id = x.ev.id /\ m.dst = p[2] /\ m.src = Dir
                             /\ m.cmd = x.ev.cmd)
\* ids of the forwarded non-cacheable requests that memory has not answered yet
Unanswered(posted) ==
    {memMsgQueue[i].ev.id : i \in {j \in 1..Len(memMsgQueue) :
         /\ memMsgQueue[j].ev.nc /\ memMsgQueue[j].ev.cmd \in RequestCmds
         /\ (posted \/ ~memMsgQueue[j].ev.noresp)}}
    \cup {m.id : m \in {n \in net : n.dst = Mem /\ n.nc}}
\* a non-cacheable response whose id is not in noncacheMemReqs
StrayResponse(id) ==
    [makeResponse([NewEvent(id, "GetS", 1, Dir, Mem) EXCEPT !.nc = TRUE], "GetSResp")
        EXCEPT !.payload = "mem"]

\* C22: every non-cacheable request is recorded as event id -> original source
\* and forwarded with the directory as its source; its response is forwarded to
\* the recorded source and the record is erased; noncacheMemReqs holds exactly
\* the ids of the forwarded requests that are not answered yet; a non-cacheable
\* response without a record is fatal
C22_EveryNoncacheableRecorded ==
    fatal = "" =>
        /\ \A e \in NoncacheableRequests : Recorded(e) /\ ForwardedAsOwn(e)
        /\ \A x \in NoncacheableAnswers : ReturnedToSource(x)
        /\ {p[1] : p \in noncacheMemReqs} = Unanswered(TRUE)
        /\ \A id \in 1..nextId :
              id \notin {p[1] : p \in noncacheMemReqs} =>
                  handlePacket(Pack, StrayResponse(id), cycle).fatal # ""

\* C22, with the request's F_NORESPONSE flag: a non-cacheable request is
\* recorded as event id -> original source unless it carries F_NORESPONSE, and
\* is forwarded with the directory as its source either way; the response is
\* forwarded to the recorded source and the record is erased; noncacheMemReqs
\* holds exactly the ids of the forwarded requests that expect a response and
\* are not answered yet; a non-cacheable response without a record is fatal
C22_NoncacheablePassThrough ==
    fatal = "" =>
        /\ \A e \in NoncacheableRequests :
              /\ ForwardedAsOwn(e)
              /\ IF e.noresp THEN AfterPacket(e).noncacheMemReqs = noncacheMemReqs
                 ELSE Recorded(e)
        /\ \A x \in NoncacheableAnswers : ReturnedToSource(x)
        /\ {p[1] : p \in noncacheMemReqs} = Unanswered(FALSE)
        /\ \A id \in 1..nextId :
              id \notin {p[1] : p \in noncacheMemReqs} =>
                  handlePacket(Pack, StrayResponse(id), cycle).fatal # ""
\* a non-cacheable read of D has gone to memory and come back to D, and the
\* record is gone
C22_Witness ==
    /\ fatal = "" /\ noncacheMemReqs = {}
    /\ CopiesIn(<<"D", "GetSResp", 1>>, delivered) > 0

\* retryBuffer, eventBuffer, cpuMsgQueue and memMsgQueue are all empty
FourQueuesEmpty(s) ==
    /\ s.retryBuffer = <<>> /\ s.eventBuffer = <<>>
    /\ s.cpuMsgQueue = <<>> /\ s.memMsgQueue = <<>>
\* the packets the links may hand to handlePacket now
Incoming ==
    {BuildEvent(e, nextId) : e \in {x \in cfg.free : Legal(x)}}
    \cup (IF script # <<>> /\ Legal(Head(script))
          THEN {BuildEvent(Head(script), nextId)} ELSE {})
    \cup {r.ev[1] : r \in {y \in UNION {Replies(m) \cup NackReplies(m) : m \in net} :
                              y.ev # <<>>}}
\* the clock call of the next cycle returns true (the handler is unregistered)
\* only if it leaves the four queues empty
OffOnlyWhenEmpty(linksIdle) ==
    With(clock(Pack, cycle + 1, linksIdle), LAMBDA r :
        (r.fatal = "" /\ ~r.clockOn) => FourQueuesEmpty(r))
\* it returns true whenever it leaves the four queues empty
OffWheneverEmpty(linksIdle) ==
    With(clock(Pack, cycle + 1, linksIdle), LAMBDA r :
        (r.fatal = "" /\ FourQueuesEmpty(r)) => ~r.clockOn)
\* it returns true whenever it leaves the four queues empty and the clocked
\* links report idle
OffWheneverIdle(linksIdle) ==
    With(clock(Pack, cycle + 1, linksIdle), LAMBDA r :
        (r.fatal = "" /\ FourQueuesEmpty(r) /\ linksIdle) => ~r.clockOn)
WakesOnPacket ==
    ~clockOn => \A ev \in Incoming : handlePacket(Pack, ev, cycle).clockOn
NothingWaitsWhileOff == ~clockOn => FourQueuesEmpty(Pack)

\* C23: the clock handler turns the clock off only in a cycle that ends with
\* retryBuffer, eventBuffer, cpuMsgQueue and memMsgQueue all empty, and
\* whenever the four are empty at the end of a cycle it does turn the clock
\* off; every handlePacket call made while the clock is off turns it on, and
\* nothing is left waiting in the four queues while the clock is off
C23_OffWheneverQueuesEmpty ==
    fatal = "" =>
        /\ clockOn => \A li \in LinkClock(Sent(Pack, cycle + 1)) :
                          OffOnlyWhenEmpty(li) /\ OffWheneverEmpty(li)
        /\ WakesOnPacket
        /\ NothingWaitsWhileOff

\* C23, with the links' clock() results: the clock is turned off exactly in
\* the cycles that end with the four queues empty and in which every clocked
\* link reports idle; every handlePacket call made while the clock is off
\* turns it on, and nothing is left waiting in the four queues while the clock
\* is off
C23_ClockOffWhenIdle ==
    fatal = "" =>
        /\ clockOn => \A li \in LinkClock(Sent(Pack, cycle + 1)) :
                          OffOnlyWhenEmpty(li) /\ OffWheneverIdle(li)
        /\ WakesOnPacket
        /\ NothingWaitsWhileOff
\* the clock is off after the directory answered a request, and an endpoint has
\* a request for it
C23_Witness ==
    /\ fatal = "" /\ ~clockOn /\ Incoming # {}
    /\ CopiesIn(<<"A", "GetXResp", 1>>, delivered) + CopiesIn(<<"A", "GetSResp", 1>>, delivered) > 0

\* the scheduled cycles of a queue never decrease from front to back
Sorted(q) == \A i \in 1..Len(q) - 1 : q[i].time <= q[i + 1].time
\* new is old with messages inserted one after the other, each behind every
\* message scheduled for the same or an earlier cycle and in front of the rest
RECURSIVE StableInserts(_, _)
StableInserts(old, new) ==
    \/ old = new
    \/ /\ Len(new) > Len(old)
       /\ \E i \in 1..Len(new) :
             /\ \A j \in 1..(i - 1) : new[j].time <= new[i].time
             /\ \A j \in (i + 1)..Len(new) : new[j].time > new[i].time
             /\ StableInserts(old, Without(new, i))
\* the drain of the next cycle: what it hands to the link and what it leaves
Drained(q) == SubSeq(q, 1, UpperBound(q, cycle + 1))
Kept(q) == SubSeq(q, UpperBound(q, cycle + 1) + 1, Len(q))
DrainsAllDue ==
    With(sendOutgoingEvents([Pack EXCEPT !.timestamp = cycle + 1]), LAMBDA r :
        /\ r.cpuMsgQueue = Kept(cpuMsgQueue) /\ r.memMsgQueue = Kept(memMsgQueue)
        /\ \A i \in 1..Len(Drained(cpuMsgQueue)) : Drained(cpuMsgQueue)[i].time <= cycle + 1
        /\ \A i \in 1..Len(Drained(memMsgQueue)) : Drained(memMsgQueue)[i].time <= cycle + 1
        /\ \A i \in 1..Len(r.cpuMsgQueue) : r.cpuMsgQueue[i].time > cycle + 1
        /\ \A i \in 1..Len(r.memMsgQueue) : r.memMsgQueue[i].time > cycle + 1
        /\ Sent(Pack, cycle + 1) =
               [i \in 1..Len(Drained(cpuMsgQueue)) |-> Drained(cpuMsgQueue)[i].ev]
               \o [i \in 1..Len(Drained(memMsgQueue)) |-> Drained(memMsgQueue)[i].ev])
\* a clock step of the controller
ClockStep == fatal = "" /\ clockOn /\ cycle' = cycle + 1 /\ fatal' = ""
\* a step in which the clock handler did not run
OtherStep == fatal = "" /\ cycle' = cycle /\ fatal' = ""

\* C24: the messages of cpuMsgQueue and memMsgQueue are handed to the link
\* only in a cycle at or after their scheduled cycle and in non-decreasing
\* order of scheduled cycle, those scheduled for the same cycle in the order
\* they were enqueued, and the drain of a cycle sends every message whose
\* scheduled cycle is at most that cycle
C24_OutgoingInTimeOrder ==
    /\ [](fatal = "" =>
            /\ Sorted(cpuMsgQueue) /\ Sorted(memMsgQueue)
            /\ \A i \in 1..Len(cpuMsgQueue) : cpuMsgQueue[i].time >= timestamp
            /\ \A i \in 1..Len(memMsgQueue) : memMsgQueue[i].time >= timestamp
            /\ timestamp <= cycle
            /\ clockOn => DrainsAllDue)
    /\ [][/\ ClockStep => /\ StableInserts(Kept(cpuMsgQueue), cpuMsgQueue')
                          /\ StableInserts(Kept(memMsgQueue), memMsgQueue')
          /\ OtherStep => /\ StableInserts(cpuMsgQueue, cpuMsgQueue')
                          /\ StableInserts(memMsgQueue, memMsgQueue')]_vars
\* a message enqueued later but scheduled earlier waits in front of an earlier one
C24_Witness ==
    /\ fatal = "" /\ cfg.name = "latency"
    /\ Len(memMsgQueue) >= 2
    /\ memMsgQueue[1].time < memMsgQueue[2].time
    /\ memMsgQueue[1].ev.id > memMsgQueue[2].ev.id

\* the entry of processed that records the consumption of event ev
Records(p, ev) == p.id = ev.id /\ p.cmd = ev.cmd /\ p.src = ev.src
\* the event waits in eventBuffer before the clock call and not after it
Taken(i) == eventBuffer[i] \notin InBuffer(eventBuffer')
\* the entries of the clock call's record that stand for events of eventBuffer
FromEventBuffer(k) == \E i \in 1..Len(eventBuffer) : Records(processed'[k], eventBuffer[i])
\* position in eventBuffer of the event recorded by entry k
PosOf(k) == CHOOSE i \in 1..Len(eventBuffer) : Records(processed'[k], eventBuffer[i])
\* within a clock call the replayed events come first, then the events of
\* eventBuffer from front to back; the drain comes before both: what the
\* handlers enqueue is still queued when the call returns
ClockOrder ==
    /\ \A k, l \in 1..Len(processed') :
          (k < l /\ FromEventBuffer(k)) =>
              /\ FromEventBuffer(l)
              /\ PosOf(k) < PosOf(l)
    /\ StableInserts(Kept(cpuMsgQueue), cpuMsgQueue')
    /\ StableInserts(Kept(memMsgQueue), memMsgQueue')
\* no event is taken from eventBuffer while an earlier one for the same line
\* stays behind
LineOrder ==
    \A i, j \in 1..Len(eventBuffer) :
        (/\ i < j /\ eventBuffer[i].global /\ eventBuffer[j].global
         /\ eventBuffer[i].addr = eventBuffer[j].addr
         /\ Taken(j)) => Taken(i)

\* C25: within one clock cycle the outgoing queues are drained first, then the
\* events of retryBuffer are attempted front to back, then those of eventBuffer
\* front to back; a later-arrived event for a line is never consumed while an
\* earlier-arrived event for that line is still waiting in eventBuffer
C25_CycleAndLineOrder == [][ClockStep => (ClockOrder /\ LineOrder)]_vars

\* the two loops of clock() with every event of the buffer attempted: an event
\* that processPacket takes leaves the buffer, the others stay where they are
RECURSIVE AttemptAll(_, _, _)
AttemptAll(s, i, replay) ==
    LET q == IF replay THEN s.retryBuffer ELSE s.eventBuffer IN
    IF s.fatal # "" \/ i > Len(q) THEN s
    ELSE With(processPacket(s, q[i], replay), LAMBDA r :
         IF ~r.ret THEN AttemptAll(r, i + 1, replay)
         ELSE IF replay THEN AttemptAll([r EXCEPT !.retryBuffer = RemoveAt(@, i)], i, replay)
         ELSE AttemptAll([r EXCEPT !.eventBuffer = RemoveAt(@, i)], i, replay))
\* the controller after the drain of the next cycle and an attempt of every
\* buffered event, before the idle test
AllAttempted ==
    AttemptAll(AttemptAll([sendOutgoingEvents([Pack EXCEPT !.timestamp = cycle + 1])
                              EXCEPT !.addrsThisCycle = {}, !.processed = <<>>],
                          1, TRUE),
               1, FALSE)
\* what the clock call leaves, but for clockOn
Buffers(s) == [s EXCEPT !.clockOn = TRUE]

\* C26: with maxRequestsPerCycle non-zero the events consumed from retryBuffer
\* and eventBuffer together in one clock cycle never exceed it; with zero there
\* is no limit and every buffered event is attempted each cycle
C26_RequestsPerCycle ==
    /\ [][(ClockStep /\ cfg.maxRequestsPerCycle # 0) =>
              Len(processed') <= cfg.maxRequestsPerCycle]_vars
    /\ []((fatal = "" /\ clockOn /\ cfg.maxRequestsPerCycle = 0) =>
              Buffers(clock(Pack, cycle + 1, TRUE)) = Buffers(AllAttempted))
\* the limit of one request stopped the loop in front of an event of another line
C26_Witness ==
    /\ fatal = "" /\ cfg.maxRequestsPerCycle = 1
    /\ Len(processed) = 1 /\ processed[1].cmd = "GetS"
    /\ \E ev \in InBuffer(eventBuffer) : ev.global /\ ev.addr \notin addrsThisCycle

\* the destinations of the GetXResp messages that the handling of an event adds
\* to cpuMsgQueue
NewGetXResps(r) ==
    {m \in InBuffer(r.cpuMsgQueue) :
        /\ m.ev.cmd = "GetXResp" /\ ~m.ev.nc
        /\ Len(SelectSeq(r.cpuMsgQueue, LAMBDA x : x = m))
               > Len(SelectSeq(cpuMsgQueue, LAMBDA x : x = m))}
\* every GetXResp the handling forwards goes to a requester that is then the only
\* cache the entry records, with no acknowledgement outstanding for the line
ExclusiveWhenForwarded(r) ==
    \A m \in NewGetXResps(r) :
        /\ r.directory[m.ev.addr].sharers \subseteq {m.ev.dst}
        /\ r.directory[m.ev.addr].owner \in {"", m.ev.dst}
        /\ getAcksNeeded(r, m.ev.addr) = 0
\* memory's GetXResp has arrived for a line in SM_Inv
EarlyGetXResps ==
    {ev \in Waiting({"GetXResp"}) : ev.global /\ directory[ev.addr].state = "SM_Inv"}
\* it is buffered: S_Inv, the payload in the MSHR, nothing sent, the acks still due
BufferedNoResponse(ev) ==
    With(AfterEvent(ev, FALSE), LAMBDA r :
        /\ r.fatal = "" /\ r.ret
        /\ r.directory[ev.addr] = [directory[ev.addr] EXCEPT !.state = "S_Inv"]
        /\ hasData(r, ev.addr) /\ getData(r, ev.addr) = ev.payload
        /\ r.cpuMsgQueue = cpuMsgQueue /\ r.memMsgQueue = memMsgQueue
        /\ r.retryBuffer = retryBuffer
        /\ r.mshr[ev.addr].q = mshr[ev.addr].q
        /\ getAcksNeeded(r, ev.addr) = getAcksNeeded(Pack, ev.addr))

\* C27: the requester of a GetX or GetSX is sent its data only when every
\* invalidation has been acknowledged: a GetXResp of memory that arrives in
\* SM_Inv is buffered, the line goes to S_Inv and nothing is sent; whenever a
\* GetXResp is forwarded to a requester no other cache is recorded as sharer or
\* owner of the line and acksNeeded is 0
C27_DataAfterAcks ==
    fatal = "" =>
        /\ \A ev \in EarlyGetXResps : BufferedNoResponse(ev)
        /\ \A ev \in InBuffer(eventBuffer) :
              With(AfterEvent(ev, FALSE), LAMBDA r :
                  r.fatal = "" => ExclusiveWhenForwarded(r))
        /\ \A ev \in InBuffer(retryBuffer) :
              With(AfterEvent(ev, TRUE), LAMBDA r :
                  r.fatal = "" => ExclusiveWhenForwarded(r))

\* the AckInvs waiting for a line that is in one of the five invalidating states
AckStates == {"M_Inv", "S_Inv", "SB_Inv", "SD_Inv", "SM_Inv"}
AckInvs == {ev \in Waiting({"AckInv"}) : directory[ev.addr].state \in AckStates}
\* the acknowledgement is the last one the line waits for
LastAck(ev) == getAcksNeeded(AfterEvent(ev, FALSE), ev.addr) = 0
\* the state the entry moves to on the last acknowledgement
AfterLastAck(state, shr) ==
    CASE state = "M_Inv" -> "I"
      [] state = "S_Inv" -> IF shr THEN "S" ELSE "I"
      [] state = "SB_Inv" -> IF shr THEN "S_B" ELSE "I"
      [] state = "SD_Inv" -> IF shr THEN "S_D" ELSE "IS"
      [] state = "SM_Inv" -> "IM"
\* the acknowledging cache leaves the sharer/owner set, one acknowledgement less
\* is needed, and the rest of the controller but state and retryBuffer is as before
AckCounted(ev, r) ==
    /\ r.fatal = "" /\ r.ret
    /\ r.directory[ev.addr].sharers = directory[ev.addr].sharers \ {ev.src}
    /\ r.directory[ev.addr].owner =
           IF ev.src \in directory[ev.addr].sharers THEN directory[ev.addr].owner ELSE ""
    /\ getAcksNeeded(r, ev.addr) = getAcksNeeded(Pack, ev.addr) - 1
    /\ \A a \in Addrs \ {ev.addr} : r.directory[a] = directory[a] /\ r.mshr[a] = mshr[a]
    /\ r.mshr[ev.addr].q = mshr[ev.addr].q /\ r.mshr[ev.addr].data = mshr[ev.addr].data
    /\ r.cpuMsgQueue = cpuMsgQueue /\ r.memMsgQueue = memMsgQueue
    /\ r.eventBuffer = eventBuffer /\ r.entryCache = entryCache
Transitions(ev, r) ==
    r.directory[ev.addr].state =
        AfterLastAck(directory[ev.addr].state, r.directory[ev.addr].sharers # {})
RetriesFront(ev, r) ==
    /\ hasFrontEvent(Pack, ev.addr)
    /\ r.retryBuffer = Append(retryBuffer, getFrontEvent(Pack, ev.addr))
OnlyCounted(ev, r) ==
    /\ r.directory[ev.addr].state = directory[ev.addr].state
    /\ r.retryBuffer = retryBuffer

\* C28: an AckInv that brings acksNeeded to zero moves the entry by its state
\* (M_Inv to I; S_Inv to S or I, SB_Inv to S_B or I, SD_Inv to S_D or IS, by
\* whether sharers remain; SM_Inv to IM) and in each of the five cases pushes
\* the front MSHR event of the line to retryBuffer; an AckInv that leaves
\* acksNeeded above zero changes the sharer/owner set and the counters only
C28_LastAckAlwaysRetries ==
    fatal = "" =>
        \A ev \in AckInvs :
            With(AfterEvent(ev, FALSE), LAMBDA r :
                /\ AckCounted(ev, r)
                /\ IF LastAck(ev) THEN Transitions(ev, r) /\ RetriesFront(ev, r)
                   ELSE OnlyCounted(ev, r))

\* C28, with the SM_Inv case apart: the last AckInv moves the entry as above
\* and pushes the front MSHR event to retryBuffer in M_Inv, S_Inv, SB_Inv and
\* SD_Inv; in SM_Inv the entry goes to IM and nothing is pushed (the request
\* waits for memory's data); an AckInv that leaves acksNeeded above zero
\* changes the sharer/owner set and the counters only
C28_AckInvTransitions ==
    fatal = "" =>
        \A ev \in AckInvs :
            With(AfterEvent(ev, FALSE), LAMBDA r :
                /\ AckCounted(ev, r)
                /\ IF ~LastAck(ev) THEN OnlyCounted(ev, r)
                   ELSE /\ Transitions(ev, r)
                        /\ IF directory[ev.addr].state = "SM_Inv"
                           THEN r.retryBuffer = retryBuffer
                           ELSE RetriesFront(ev, r))
\* the last AckInv has been handled in SM_Inv: the line waits in IM for memory's
\* data with B's GetX at the MSHR front and nothing to replay
C28_Witness ==
    /\ fatal = "" /\ cfg.name = "invSM"
    /\ directory[1].state = "IM" /\ Handled("AckInv", "A")
    /\ hasFrontEvent(Pack, 1) /\ getFrontEvent(Pack, 1).cmd = "GetX"
    /\ retryBuffer = <<>>

\* the replayed GetS events that find their line in I with data buffered in the MSHR
BufferedGetS ==
    {ev \in InBuffer(retryBuffer) :
        /\ ev.cmd = "GetS" /\ ev.global
        /\ directory[ev.addr].present /\ directory[ev.addr].cached
        /\ directory[ev.addr].state = "I" /\ hasData(Pack, ev.addr)}
\* the replay answers the requester with the buffered data and leaves the entry
\* in M with the requester as owner (MESI), in S with the requester as sharer
\* (MSI), or in I (incoherent requester)
AnsweredFromBuffer(ev, r) ==
    /\ r.fatal = "" /\ r.ret
    /\ OneMore(cpuMsgQueue, r.cpuMsgQueue,
               LAMBDA m : /\ m.dst = ev.src /\ m.addr = ev.addr
                          /\ m.payload = getData(Pack, ev.addr)
                          /\ m.cmd = IF ev.src \notin cfg.incoherentSrc
                                        /\ cfg.protocol = "MESI"
                                     THEN "GetXResp" ELSE "GetSResp")
    /\ IF ev.src \in cfg.incoherentSrc
       THEN r.directory[ev.addr] = directory[ev.addr]
       ELSE IF cfg.protocol = "MESI"
       THEN r.directory[ev.addr].state = "M" /\ r.directory[ev.addr].owner = ev.src
       ELSE r.directory[ev.addr].state = "S" /\ ev.src \in r.directory[ev.addr].sharers

\* C29: a replayed GetS that finds the line in I with data buffered in the MSHR
\* is answered from that data, and afterwards the MSHR holds no buffered data
\* for the address, whether the requester is coherent under MESI (entry M,
\* owner the requester), coherent under MSI (entry S, the requester a sharer)
\* or incoherent (entry stays I)
C29_BufferedDataCleared ==
    fatal = "" =>
        \A ev \in BufferedGetS :
            With(AfterEvent(ev, TRUE), LAMBDA r :
                AnsweredFromBuffer(ev, r) /\ ~hasData(r, ev.addr))

\* the requests of the incoherent sources in the scenario's script, so far issued
\* or not, and the responses the links have handed to those sources
ScriptOf(name) == (CHOOSE sc \in IncScenarios : sc.cfg.name = name).script
RECURSIVE CountFrom(_, _)
CountFrom(scr, srcs) ==
    IF scr = <<>> THEN 0
    ELSE (IF Head(scr).src \in srcs THEN 1 ELSE 0) + CountFrom(Tail(scr), srcs)
RECURSIVE SumCopies(_)
SumCopies(tags) ==
    IF tags = {} THEN 0
    ELSE LET t == CHOOSE x \in tags : TRUE
         IN CopiesIn(t, delivered) + SumCopies(tags \ {t})
ResponsesTo(srcs) ==
    SumCopies({t \in BagToSet(delivered) :
                  t[1] \in srcs /\ t[2] \in {"GetSResp", "GetXResp", "WriteResp"}})
\* nothing is left to happen: every request is issued, no message is in flight
\* and the clock is off
AtRest == fatal = "" /\ script = <<>> /\ net = {} /\ ~clockOn
\* the scenario has run to its end
RunOut == AtRest /\ Quiet
\* no entry records an incoherent source
NotRecorded(s) ==
    \A a \in Addrs : /\ s.directory[a].sharers \cap cfg.incoherentSrc = {}
                     /\ s.directory[a].owner \notin cfg.incoherentSrc

\* C30: an incoherent source is never recorded as sharer or owner of a line,
\* whatever GetS, GetX, GetSX and Write requests it sends and whatever memory
\* answers, and it still receives a response to each of its requests
C30_IncoherentNeverRecorded ==
    /\ [](fatal = "" => NotRecorded(Pack))
    /\ [](AtRest =>
             /\ Quiet
             /\ ResponsesTo(cfg.incoherentSrc) =
                    CountFrom(ScriptOf(cfg.name), cfg.incoherentSrc))
    /\ [](ResponsesTo(cfg.incoherentSrc) <= CountFrom(ScriptOf(cfg.name), cfg.incoherentSrc))
\* D has read a line that A owned and then asked for it exclusively: both
\* requests are answered and the entry records A only
C30_Witness ==
    /\ RunOut /\ cfg.name = "incOwned"
    /\ CopiesIn(<<"D", "GetSResp", 1>>, delivered) = 1
    /\ CopiesIn(<<"D", "GetXResp", 1>>, delivered) = 1

\* the NACKs in an outgoing queue, in order
NackMsgs(q) == SelectSeq(q, LAMBDA m : m.ev.cmd = "NACK")
NacksQueued(s) == <<NackMsgs(s.cpuMsgQueue), NackMsgs(s.memMsgQueue)>>
\* handling ev queued exactly one message more, the NACK of ev
NackAdded(ev, r) ==
    \/ /\ OneMore(cpuMsgQueue, r.cpuMsgQueue, LAMBDA m : IsNackOf(m, ev))
       /\ r.memMsgQueue = memMsgQueue
    \/ /\ OneMore(memMsgQueue, r.memMsgQueue, LAMBDA m : IsNackOf(m, ev))
       /\ r.cpuMsgQueue = cpuMsgQueue
\* the events waiting in the retry buffer
Retried == InBuffer(retryBuffer)

\* C31: handling a response event (GetSResp, GetXResp, WriteResp, FlushLineResp,
\* AckInv, AckPut, FetchResp, FetchXResp, NACK) queues no NACK, whatever the MSHR
\* occupancy, and neither does the replay of an event that is already in the MSHR;
\* a request is answered with a NACK only when the MSHR is full and the request
\* was not inserted
C31_ResponsesNeverNacked ==
    /\ \A ev \in Waiting(ResponseCmds) :
          NacksQueued(AfterEvent(ev, FALSE)) = NacksQueued(Pack)
    /\ \A ev \in Retried : NacksQueued(AfterEvent(ev, TRUE)) = NacksQueued(Pack)
    /\ \A ev \in Waiting(RequestCmds) :
          With(AfterEvent(ev, FALSE), LAMBDA r :
               NacksQueued(r) # NacksQueued(Pack) =>
               /\ MSHRFull
               /\ NackAdded(ev, r)
               /\ r.mshr[ev.addr].q = mshr[ev.addr].q)

\* C31 witness: a data response is waiting while the MSHR is full and a NACK of a
\* rejected request is queued; handling the response adds no NACK
C31_Witness ==
    /\ fatal = ""
    /\ MSHRFull
    /\ NackMsgs(cpuMsgQueue) # <<>>
    /\ \E ev \in Waiting({"GetSResp", "GetXResp"}) : AfterEvent(ev, FALSE).fatal = ""

\* the states in which a memory-side invalidation is queued at index 0, and at
\* index 1
FrontInsertStates == {"S_B", "S_D", "SM_Inv"}
SecondInsertStates == {"S_Inv", "M_Inv", "M_InvX"}
\* the FetchInv and ForceInv that the memory side could hand in now for line a
MemInvs(a) == {BuildEvent(Req(c, Mem, a), nextId) : c \in {"FetchInv", "ForceInv"}}
\* handling ev put it into its line's queue at index idx, the other entries in
\* place, with no NACK and no fatal error
InsertedAt(ev, r, idx) ==
    /\ r.fatal = "" /\ r.ret
    /\ NacksQueued(r) = NacksQueued(Pack)
    /\ idx <= Len(mshr[ev.addr].q)
    /\ r.mshr[ev.addr].q = InsertAt(mshr[ev.addr].q, idx, EventEntry(ev))
\* the keys of the events of a line's queue, in order
EventKeys(q) ==
    LET evs == SelectSeq(q, LAMBDA e : e.type = "Event")
    IN [i \in 1..Len(evs) |-> <<evs[i].ev[1].id, evs[i].ev[1].cmd, evs[i].ev[1].src>>]
KeyPos(ks, k) == CHOOSE i \in 1..Len(ks) : ks[i] = k
KeySet(ks) == {ks[i] : i \in 1..Len(ks)}
MemSide(k) == k[3] = Mem /\ k[2] \in {"FetchInv", "ForceInv"}
\* the step keeps the order of the events that stay in the queue and puts every
\* new event that is not a memory-side invalidation behind them
TailAppends(old, new) ==
    /\ \A k1, k2 \in KeySet(old) \cap KeySet(new) :
          KeyPos(old, k1) < KeyPos(old, k2) => KeyPos(new, k1) < KeyPos(new, k2)
    /\ \A k \in KeySet(new) \ KeySet(old) : \A k2 \in KeySet(old) \cap KeySet(new) :
          ~MemSide(k) => KeyPos(new, k2) < KeyPos(new, k)
MSHROrderKept ==
    \A a \in Addrs : TailAppends(EventKeys(mshr[a].q), EventKeys(mshr'[a].q))

\* C32: a FetchInv or ForceInv of the memory side that arrives while the line is
\* in S_B, S_D or SM_Inv is inserted into the line's MSHR queue at index 0, and in
\* S_Inv, M_Inv or M_InvX at index 1, whatever the MSHR occupancy; every other
\* step keeps the order of the queued events and appends the new ones at the tail
C32_ForwardInsertPositions ==
    /\ [](\A a \in Addrs : \A ev \in MemInvs(a) :
            (fatal = "" /\ directory[a].present /\ directory[a].cached) =>
            /\ directory[a].state \in FrontInsertStates =>
                  InsertedAt(ev, AfterEvent(ev, FALSE), 0)
            /\ directory[a].state \in SecondInsertStates =>
                  InsertedAt(ev, AfterEvent(ev, FALSE), 1))
    /\ [][MSHROrderKept]_vars

\* C32 witness: with the MSHR full, the memory's FetchInv has been queued ahead of
\* the GetX whose invalidation is in flight
C32_Witness ==
    /\ fatal = ""
    /\ MSHRFull
    /\ Len(mshr[1].q) = 2
    /\ mshr[1].q[1].ev[1].cmd = "FetchInv" /\ mshr[1].q[1].ev[1].src = Mem
    /\ mshr[1].q[2].ev[1].cmd = "GetX"
    /\ mshr[1].acks > 0

\* the responses to directory-entry reads waiting in the event buffer
EntryResponses == {ev \in InBuffer(eventBuffer) : ~ev.global}
StableOf(st) == CASE st = "I_d" -> "I" [] st = "S_d" -> "S" [] st = "M_d" -> "M"
                  [] OTHER -> "none"
\* the response restores the entry of line a and retries the line's front event
Restores(ev, a, r) ==
    /\ r.fatal = "" /\ r.ret
    /\ r.directory[a] = [directory[a] EXCEPT !.state = StableOf(@), !.cached = TRUE]
    /\ \A b \in Addrs \ {a} : r.directory[b] = directory[b]
    /\ r.dirMemAccesses = dirMemAccesses \ {<<ev.respTo, a>>}
    /\ <<ev.respTo, a>> \in dirMemAccesses
    /\ hasFrontEvent(Pack, a)
    /\ r.retryBuffer = Append(retryBuffer, getFrontEvent(Pack, a))
    /\ r.mshr = mshr
\* the response to a directory-entry read of line a that was never issued, and
\* the controller with that read on record
StrayEntryResponse(a) ==
    makeResponse([NewEvent(nextId, "GetS", DirEntryAddr, Dir, Mem) EXCEPT
                      !.global = FALSE, !.size = "entry"], "GetSResp")
WithEntryRead(a) ==
    [Pack EXCEPT !.dirMemAccesses = @ \cup {<<nextId, a>>}, !.addrsThisCycle = {}]

\* C33: the response to a directory-entry read takes the entry from I_d, S_d or M_d
\* back to I, S or M with owner and sharers as they were, sets cached, removes the
\* dirMemAccesses record and pushes the front MSHR event of the line to the retry
\* buffer; for an entry in any other state it is a fatal error
C33_EntryResponseRestores ==
    /\ \A ev \in EntryResponses :
          fatal = "" =>
          /\ directory[lineOf(Pack, ev)].state \in {"I_d", "S_d", "M_d"}
          /\ Restores(ev, lineOf(Pack, ev), AfterEvent(ev, FALSE))
    /\ \A a \in Addrs :
          EntryView(directory[a]).state \notin {"I_d", "S_d", "M_d"} =>
          processPacket(WithEntryRead(a), StrayEntryResponse(a), FALSE).fatal
              = "directory entry response in an unhandled state"

\* C33 witness: a response to the read of an entry in S_d with a sharer is waiting
C33_Witness ==
    /\ fatal = ""
    /\ \E ev \in EntryResponses :
          /\ directory[lineOf(Pack, ev)].state = "S_d"
          /\ directory[lineOf(Pack, ev)].sharers # {}
          /\ ~directory[lineOf(Pack, ev)].cached

\* the states each response handler has an arm for
TableOf(cmd) ==
    CASE cmd = "GetSResp" -> {"IS", "S_D"}
      [] cmd = "GetXResp" -> {"IS", "S_D", "IM", "SM_Inv"}
      [] cmd = "WriteResp" -> {"IM"}
      [] cmd = "FlushLineResp" -> {"I", "I_B", "S_B"}
      [] cmd = "FetchResp" -> {"S_Inv", "M_Inv"}
      [] cmd = "FetchXResp" -> {"M_InvX"}
      [] cmd = "AckInv" -> {"M_Inv", "S_Inv", "SB_Inv", "SD_Inv", "SM_Inv"}
\* the handler's own fatal error
UnhandledError(cmd) == cmd \o " in an unhandled state"
\* a response that an endpoint hands in for line a, asked for or not
ResponseFrom(cmd, src, a) ==
    [NewEvent(nextId, cmd, a, src, Dir) EXCEPT !.respTo = nextId, !.size = "line",
                                               !.payload = "mem"]
StrayResponses(a) ==
    {ResponseFrom(c, Mem, a) : c \in {"GetSResp", "GetXResp", "WriteResp", "FlushLineResp"}}
    \cup {ResponseFrom(c, n, a) : c \in {"FetchResp", "FetchXResp", "AckInv"}, n \in Caches}
\* the response finds its line in a state its handler has no arm for and the
\* handler ends in its fatal error
UnhandledIsFatal(ev) ==
    EntryView(directory[ev.addr]).state \notin TableOf(ev.cmd) =>
    AfterEvent(ev, FALSE).fatal = UnhandledError(ev.cmd)

\* C34: a response that finds its line in a state its handler has no arm for ends
\* in the handler's fatal error and is never accepted: GetSResp outside IS, S_D;
\* GetXResp outside IS, S_D, IM, SM_Inv; WriteResp outside IM; FlushLineResp
\* outside I, I_B, S_B; FetchResp outside S_Inv, M_Inv; FetchXResp outside M_InvX;
\* AckInv outside M_Inv, S_Inv, SB_Inv, SD_Inv, SM_Inv
C34_UnexpectedResponseFatal ==
    fatal = "" =>
    \A a \in Addrs : \A ev \in StrayResponses(a) : UnhandledIsFatal(ev)

\* the same for every response but AckInv
OtherResponsesFatal ==
    fatal = "" =>
    \A a \in Addrs : \A ev \in StrayResponses(a) : ev.cmd # "AckInv" => UnhandledIsFatal(ev)

\* the core is blocked on a memory request
Stalled(n, c) == n.core[c].type \in StallTypes
\* the requests of core c in flight
InFlight(n, c) == Len(SelectSeq(n.sent, LAMBDA r : r.src_core = c))
\* the step delivers a response to core c
AnsweredNow(c) == InFlight(node', c) < InFlight(node, c)
\* a step of the harness
NodeStep == node.core # <<>> /\ node' # node

\* C35: a core that becomes StallMemoryRead or StallMemoryWrite has exactly one
\* memory request sent for that stall; while it is stalled it is not stepped and
\* no further request is sent for it, whatever its task deque holds, until a
\* response marks it ready
C35_StalledCoreNotStepped ==
    [][NodeStep =>
       \A c \in Cores :
          /\ (~Stalled(node, c) /\ Stalled(node', c)) =>
                InFlight(node', c) = InFlight(node, c) + 1
          /\ Stalled(node, c) =>
                /\ c \notin node'.stepped
                /\ InFlight(node', c) <= InFlight(node, c)
                /\ Stalled(node', c) \/ AnsweredNow(c)]_vars

\* the same for a stalled core whose task deque is empty
StalledEmptyNotStepped ==
    [][NodeStep =>
       \A c \in Cores :
          /\ (~Stalled(node, c) /\ Stalled(node', c)) =>
                InFlight(node', c) = InFlight(node, c) + 1
          /\ (Stalled(node, c) /\ node.core[c].tasks = 0) =>
                /\ c \notin node'.stepped
                /\ InFlight(node', c) <= InFlight(node, c)
                /\ Stalled(node', c) \/ AnsweredNow(c)]_vars

\* the answers of the memory to a read of a line, waiting in the event buffer
ReadAnswers == {ev \in Waiting({"GetSResp", "GetXResp"}) : ev.global /\ ~ev.nc /\ ev.src = Mem}
\* the events queued for a line, and the requests that issued the read ev answers
QueuedEvents(s, a) ==
    {s.mshr[a].q[i].ev[1] : i \in {j \in 1..Len(s.mshr[a].q) : s.mshr[a].q[j].type = "Event"}}
ReadersOf(ev) == {rq \in QueuedEvents(Pack, ev.addr) : rq.id = ev.respTo}
\* the data responses that handling an event has added to the outgoing queues
DataMsgs(s) ==
    {m.ev : m \in InBuffer(s.cpuMsgQueue) \cup InBuffer(s.memMsgQueue)}
NewData(r) == {m \in DataMsgs(r) \ DataMsgs(Pack) : m.cmd \in {"GetSResp", "GetXResp"}}
\* the data goes to the reader and the reader is the event that leaves the MSHR
ReturnsToReader(ev, r) ==
    /\ ReadersOf(ev) # {}
    /\ \A m \in NewData(r) : \E rq \in ReadersOf(ev) : m.dst = rq.src /\ m.respTo = rq.id
    /\ QueuedEvents(Pack, ev.addr) \ QueuedEvents(r, ev.addr) \subseteq ReadersOf(ev)

\* C36: a data response that the directory forwards when the memory's answer to a
\* read arrives goes to the source of the request that issued the read, and that
\* request is the one removed from the MSHR, also when a FetchInv or ForceInv of
\* the memory side was queued at index 0 of the line in the meantime
C36_DataReturnsToReader ==
    \A ev \in ReadAnswers :
        With(AfterEvent(ev, FALSE), LAMBDA r : r.fatal = "" => ReturnsToReader(ev, r))

\* the commands with which dirty data leaves the directory for the memory side
DirtyCarriers == {"PutM", "FlushLine", "FlushLineInv", "FetchResp"}
CarriesDirty(m, a) ==
    /\ m.addr = a /\ m.dirty /\ m.payload # "none"
    /\ m.cmd \in DirtyCarriers /\ m.dst = Mem
DirtyOut(s, a) ==
    Cardinality({i \in 1..Len(s.memMsgQueue) : CarriesDirty(s.memMsgQueue[i].ev, a)})
        + Cardinality({i \in 1..Len(s.cpuMsgQueue) : CarriesDirty(s.cpuMsgQueue[i].ev, a)})
\* the MSHR holds a dirty copy of the line
BufferedDirty(s, a) == s.mshr[a].data.has /\ s.mshr[a].data.dirty
\* the event hands a dirty payload to the directory
ArrivesDirty(ev) ==
    /\ ev.dirty /\ ev.payload # "none"
    /\ \/ ev.cmd \in {"PutM", "PutX", "PutE", "FetchResp", "FetchXResp"}
       \/ ev.cmd \in {"FlushLine", "FlushLineInv"} /\ ev.evict
\* a queued event of the line still carries its dirty payload
QueuedDirty(s, a) == \E q \in QueuedEvents(s, a) : ArrivesDirty(q)
\* handling ev ends with the dirty data of its line nowhere: not buffered, not
\* with a queued event, not sent to the memory side, not returned in a NACK
DirtyLost(ev, r) ==
    /\ r.fatal = "" /\ r.ret
    /\ BufferedDirty(Pack, ev.addr) \/ QueuedDirty(Pack, ev.addr) \/ ArrivesDirty(ev)
    /\ ~BufferedDirty(r, ev.addr) /\ ~QueuedDirty(r, ev.addr)
    /\ DirtyOut(r, ev.addr) = DirtyOut(Pack, ev.addr)
    /\ ~NackAdded(ev, r)

\* C37: dirty data handed to the directory is never lost: after any event is
\* handled or replayed, the dirty payload it carried or that the MSHR buffered for
\* its line is still buffered, or still with a queued event, or was sent to the
\* memory side in a PutM, a flush with payload or a FetchResp
C37_DirtyDataNeverLost ==
    /\ \A ev \in InBuffer(eventBuffer) : ~DirtyLost(ev, AfterEvent(ev, FALSE))
    /\ \A ev \in Retried : ~DirtyLost(ev, AfterEvent(ev, TRUE))

\* no event is twice in the retry buffer, and every event in it is still queued
\* in the MSHR of its line
NoDuplicates(rb) == \A i, j \in 1..Len(rb) : i # j => rb[i].id # rb[j].id
StillQueued(s, rb) ==
    \A i \in 1..Len(rb) : \E q \in QueuedEvents(s, rb[i].addr) : q.id = rb[i].id /\ q.cmd = rb[i].cmd
RetryBufferSound(s, rb) == s.fatal = "" => NoDuplicates(rb) /\ StillQueued(s, rb)
\* the retry buffer after the clock has replayed its i-th event
AfterReplay(i) ==
    With(AfterEvent(retryBuffer[i], TRUE), LAMBDA r :
         [r EXCEPT !.retryBuffer = IF r.ret THEN RemoveAt(@, i) ELSE @])

\* C38: the retry buffer never holds the same MSHR event twice and never holds an
\* event that has left the MSHR: between cycles, after any waiting event is
\* handled and after any event of the retry buffer is replayed
C38_RetryBufferSound ==
    /\ RetryBufferSound(Pack, retryBuffer)
    /\ \A ev \in InBuffer(eventBuffer) :
          With(AfterEvent(ev, FALSE), LAMBDA r : RetryBufferSound(r, r.retryBuffer))
    /\ \A i \in 1..Len(retryBuffer) :
          With(AfterReplay(i), LAMBDA r : RetryBufferSound(r, r.retryBuffer))

\* what a rejected request must leave alone for its line: the entry's state (an
\* entry that does not exist yet reads as I), owner and sharers, the data and the
\* ack counter of the MSHR, and the responses tracker
LineView(s, a) ==
    [state |-> IF s.directory[a].present THEN s.directory[a].state ELSE "I",
     owner |-> s.directory[a].owner, sharers |-> s.directory[a].sharers,
     data |-> s.mshr[a].data, acks |-> s.mshr[a].acks, responses |-> s.responses]

\* C39: a request that the directory rejects with a NACK because the MSHR is full
\* leaves the entry's state, owner and sharers, the MSHR's buffered data and ack
\* counter and the responses tracker as they were, for every request handler and
\* also for a FlushLine or FlushLineInv that carries an eviction while the line is
\* in a transient state
C39_NackLeavesLineUntouched ==
    \A ev \in WaitingRequests :
        Rejected(ev) => LineView(Dispatch(Pack, ev, FALSE), ev.addr) = LineView(Pack, ev.addr)

\* the caches and the memory answer every message that the directory sent them,
\* and the simulator clocks the directory while its handler is registered
LiveScriptSpec == FairScriptSpec /\ WF_vars(Respond)

\* the line has work pending: an event of it is parked in the MSHR or waits in a
\* buffer, or its entry is in a transient state
StableStates == {"NP", "I", "S", "M"}
Pending(a) ==
    \/ exists(Pack, a)
    \/ directory[a].state \notin StableStates
    \/ \E ev \in InBuffer(eventBuffer) \cup Retried : ev.global /\ ev.addr = a
\* the run has ended: a fatal error, or the last cycle of the run
RunOver == fatal # "" \/ cycle = cfg.maxCycle

\* C40: with the clock handler called every cycle and every message of the
\* directory answered, every request parked in the MSHR is retried and completed,
\* no line stays in a transient state and no event stays in the retry buffer or
\* the event buffer: a line with pending work comes to rest before the run is over
C40_PendingWorkCompletes ==
    \A a \in Addrs : Pending(a) ~> (~Pending(a) \/ RunOver)
====
